---------------------------- MODULE Spec2Model ----------------------------
(***************************************************************************)
(* Model of the route-optimization engine of hospital_routes: the shared   *)
(* input validators, the composite fitness, validate_solution, the Greedy  *)
(* optimizer, the Simulated Annealing optimizer, the Genetic Algorithm     *)
(* optimizer, the Local Search refiner and the benchmark harness.          *)
(*                                                                         *)
(* Numbers.  Python floats are modelled as integers.  Locations lie on one *)
(* meridian, <<lat, 0>> with lat in whole degrees, so that the geodesic    *)
(* distance is KmPerDegree * |dlat| and the Euclidean fallback of          *)
(* AutonomyPenalty is |dlat|.  A fitness value f is held as the integer    *)
(* FitnessScale * f; the square root of LoadBalancePenalty is rounded down *)
(* to that resolution.  A probability is held in percent.                  *)
(***************************************************************************)
EXTENDS Integers, Sequences, FiniteSets, TLC

VARIABLES
    optimizer,      \* which optimizer's optimize() is being called
    deliveries,     \* List[Delivery]
    vehicles,       \* List[VehicleConstraints]
    config,         \* OptimizationConfig
    optimizer_type, \* OptimizerFactory.create: the argument optimizer_type
    factory_config, \* OptimizerFactory.create: the argument config (a dict)
    created,        \* the optimizer create returned (<<>> if it made none)
    distance_matrix,\* the matrix built by the call in progress (<<>> before)
    pc,             \* position of the call in progress
    result,         \* the OptimizationResult returned (<<>> while none)
    raised,         \* the exception the caller receives (<<>> while none)
    individuals,    \* GA heap: the creator.Individual objects, by identity
    population,     \* GA: list of references to individuals
    offspring,      \* GA: list of references / plain lists
    cursor,         \* GA: index of the loop inside the current phase
    generation,     \* GA: loop variable of the generation loop
    draws,          \* the values the module random has returned, or will repeat
    first_run,      \* history: outcome of an earlier optimize call (<<>> if none)
    at_selection,   \* history: routes and fitness of the population when _select ran
    best_fitness_history,
    best_fitness,
    generations_without_improvement,
    sa_params,      \* SA: initial_temperature, cooling_rate, min_temperature
    current_solution,
    current_fitness,
    best_solution,
    temperature,    \* SA: <<numerator, denominator>>
    iteration,      \* SA: number of loop iterations started
    seed_fitness,   \* history: fitness of the Greedy seed under SA's weights
    accepted,       \* history: fitness of every neighbor accepted
    solution,       \* the RouteSolution handed to validate_solution / LocalSearch
    verdict,        \* what validate_solution returned (<<>> while none)
    max_iterations, \* LocalSearch.improve_solution argument
    algorithms,     \* run_benchmark: the argument algorithms
    algo_idx,       \* run_benchmark: position in the for loop
    algorithm_results,
    benchmark_result,
    run_log         \* history: outcome of each requested run, in order

inputVars == <<optimizer, deliveries, vehicles, config, optimizer_type,
               factory_config, created>>
callVars  == <<pc, result, raised, distance_matrix>>
gaVars    == <<individuals, population, offspring, cursor, generation,
               generations_without_improvement, draws, first_run,
               at_selection>>
bestVars  == <<best_fitness_history, best_fitness>>
saVars    == <<sa_params, current_solution, current_fitness, best_solution,
               temperature, iteration, seed_fitness, accepted>>
solVars   == <<solution, verdict, max_iterations>>
benchVars == <<algorithms, algo_idx, algorithm_results, benchmark_result, run_log>>
vars == <<inputVars, callVars, gaVars, bestVars, saVars, solVars, benchVars>>

----------------------------------------------------------------------------
(* Bounds of the model and constants of the program *)

FitnessScale == 4       \* resolution of a fitness value: 1 / FitnessScale
MaxGenerations == 3     \* largest config.generations of a GA run
MaxSAGenerations == 5   \* largest config.generations of an SA run
MaxIterations == 2      \* largest max_iterations of improve_solution
MaxAlgorithms == 3      \* longest list of algorithms given to run_benchmark

KmPerDegree == 111      \* geodesic(...).kilometers along a meridian
Inf == 100000000        \* float('inf')
DepotKey == "depot"
depot_location == <<0, 0>>
TournSize == 3          \* tools.selTournament(..., tournsize=3)
UnknownVehiclePenalty == 1000   \* penalty_weight * 1000
SAFallbackIterations == 1000    \* iterations when config.generations <= 0
BalanceAttempts == 10   \* for _ in range(10) of _balance_loads
MinExecutionTime == 1   \* max(x.execution_time, 0.001), in milliseconds

\* FitnessWeights(): utils/config.py; load_balance_penalty is the getattr
\* default 0.5 of CompositeFitness.__init__, held as 1/2.
FitnessWeights ==
    [distance_weight |-> 1, capacity_penalty |-> 1000, autonomy_penalty |-> 1000,
     priority_penalty |-> 500, vehicle_penalty |-> 100,
     load_balance_num |-> 1, load_balance_den |-> 2]

----------------------------------------------------------------------------
(* Helpers on numbers and sequences *)

Abs(x) == IF x < 0 THEN -x ELSE x

RECURSIVE ISqrt(_)
ISqrt(n) ==
    IF n < 2 THEN n
    ELSE LET s == 2 * ISqrt(n \div 4)
         IN IF (s + 1) * (s + 1) <= n THEN s + 1 ELSE s

RECURSIVE GCD(_, _)
GCD(a, b) == IF b = 0 THEN a ELSE GCD(b, a % b)

RECURSIVE SumSeq(_)
SumSeq(s) == IF s = <<>> THEN 0 ELSE Head(s) + SumSeq(Tail(s))

RECURSIVE Flatten(_)
Flatten(routes) ==
    IF routes = <<>> THEN <<>> ELSE Head(routes) \o Flatten(Tail(routes))

Range(s) == {s[i] : i \in DOMAIN s}

SetMin(S) == CHOOSE x \in S : \A y \in S : x <= y

RECURSIVE Reverse(_)
Reverse(s) == IF s = <<>> THEN <<>> ELSE Append(Reverse(Tail(s)), Head(s))

RemoveAt(s, i) == SubSeq(s, 1, i - 1) \o SubSeq(s, i + 1, Len(s))

InsertAt(s, i, x) == SubSeq(s, 1, i - 1) \o <<x>> \o SubSeq(s, i, Len(s))

\* list.remove(x): drops the first occurrence
RemoveFirst(s, x) ==
    IF x \notin Range(s) THEN s
    ELSE RemoveAt(s, CHOOSE i \in DOMAIN s : s[i] = x /\ \A j \in 1..(i - 1) : s[j] # x)

Count(s, x) == Cardinality({i \in DOMAIN s : s[i] = x})

\* random.shuffle: every reordering of s
Shuffles(s) ==
    {p \in [DOMAIN s -> Range(s)] : \A x \in Range(s) : Count(p, x) = Count(s, x)}

\* max(range(len(keys)), key=...) and min(...): the first index of a
\* greatest, of a least, key
FirstMaxIndex(loads) ==
    CHOOSE i \in DOMAIN loads :
        /\ \A j \in DOMAIN loads : loads[j] <= loads[i]
        /\ \A j \in 1..(i - 1) : loads[j] < loads[i]

FirstMinIndex(loads) ==
    CHOOSE i \in DOMAIN loads :
        /\ \A j \in DOMAIN loads : loads[j] >= loads[i]
        /\ \A j \in 1..(i - 1) : loads[j] > loads[i]

----------------------------------------------------------------------------
(* Input validation: utils/validators.py *)

\* {d.id: d for d in deliveries}: the last delivery of an id wins
delivery_dict(dels) ==
    [id \in {dels[i].id : i \in DOMAIN dels} |->
        dels[CHOOSE i \in DOMAIN dels :
                /\ dels[i].id = id
                /\ \A j \in DOMAIN dels : dels[j].id = id => j <= i]]

validate_deliveries(dels) ==
    /\ dels # <<>>
    /\ \A i \in DOMAIN dels :
        /\ dels[i].id # ""
        /\ \A j \in 1..(i - 1) : dels[j].id # dels[i].id
        /\ dels[i].weight > 0
        /\ dels[i].priority \in {1, 2}

validate_vehicles(vehs) ==
    /\ vehs # <<>>
    /\ \A i \in DOMAIN vehs :
        /\ vehs[i].max_capacity > 0
        /\ vehs[i].max_range > 0
        /\ vehs[i].fuel_cost_per_km >= 0
        /\ vehs[i].driver_cost_per_hour >= 0

\* The exception raised by the two validators called in a row, "" if none
ValidationError(dels, vehs) ==
    IF validate_deliveries(dels) /\ validate_vehicles(vehs) THEN ""
    ELSE "DataValidationError"

\* except Exception as e: raise OptimizationError(...) from e
\* <<type of the exception raised, type of its __cause__>>
WrapOptimizationError(e) == <<"OptimizationError", e>>

----------------------------------------------------------------------------
(* Distances *)

\* geodesic(point1, point2).kilometers, for two points of one meridian
calculate_distance(p, q) == KmPerDegree * Abs(p[1] - q[1])

\* _build_distance_matrix: keyed by ids, with the reserved key "depot"; the
\* depot entries are written last and overwrite an equal key
_build_distance_matrix(dels, depot) ==
    LET ids  == {dels[i].id : i \in DOMAIN dels}
        dd   == delivery_dict(dels)
        keys == {<<a, b>> \in ids \X ids : a # b}
                  \cup {<<DepotKey, a>> : a \in ids} \cup {<<a, DepotKey>> : a \in ids}
    IN [k \in keys |->
          IF k[1] = DepotKey /\ k[2] = DepotKey
              THEN calculate_distance(dd[DepotKey].location, depot)
          ELSE IF k[2] = DepotKey /\ k[1] \in ids
              THEN calculate_distance(dd[k[1]].location, depot)
          ELSE IF k[1] = DepotKey
              THEN calculate_distance(depot, dd[k[2]].location)
          ELSE calculate_distance(dd[k[1]].location, dd[k[2]].location)]

\* distance_matrix.get(key, default)
MatrixGet(matrix, key, default) ==
    IF key \in DOMAIN matrix THEN matrix[key] ELSE default

\* depot -> first, consecutive stops, last -> depot; 0 for an empty route
_calculate_route_distance(route, matrix) ==
    IF route = <<>> THEN 0
    ELSE MatrixGet(matrix, <<DepotKey, route[1]>>, 0)
         + SumSeq([i \in 1..(Len(route) - 1) |->
                     MatrixGet(matrix, <<route[i], route[i + 1]>>, 0)])
         + MatrixGet(matrix, <<route[Len(route)], DepotKey>>, 0)

_calculate_total_distance(routes, matrix) ==
    SumSeq([r \in DOMAIN routes |-> _calculate_route_distance(routes[r], matrix)])

route_weight(route, dels) ==
    LET dd == delivery_dict(dels)
    IN SumSeq([k \in DOMAIN route |->
                 IF route[k] \in DOMAIN dd THEN dd[route[k]].weight ELSE 0])

----------------------------------------------------------------------------
(* Fitness engine: optimization/fitness/*.py.  The solution argument is a *)
(* record with the fields routes and total_distance that are read.        *)

\* DistanceFitness.calculate: weight * solution.total_distance
DistanceFitness(sol, w) == w.distance_weight * sol.total_distance * FitnessScale

\* A penalty that passes over the routes beyond the fleet
CapacityPenalty_FleetOnly(sol, dels, vehs, w) ==
    SumSeq([r \in DOMAIN sol.routes |->
        IF r > Len(vehs) THEN 0
        ELSE LET rw == route_weight(sol.routes[r], dels)
             IN IF rw > vehs[r].max_capacity
                   THEN w.capacity_penalty * (rw - vehs[r].max_capacity) * FitnessScale
                   ELSE 0])

\* CapacityPenalty.calculate
CapacityPenalty(sol, dels, vehs, w) ==
    SumSeq([r \in DOMAIN sol.routes |->
        IF r > Len(vehs) THEN w.capacity_penalty * UnknownVehiclePenalty * FitnessScale
        ELSE LET rw == route_weight(sol.routes[r], dels)
             IN IF rw > vehs[r].max_capacity
                   THEN w.capacity_penalty * (rw - vehs[r].max_capacity) * FitnessScale
                   ELSE 0])

\* next((d for d in deliveries if d.id == x), None): the first delivery of that id
FirstDelivery(dels, x) ==
    IF \E i \in DOMAIN dels : dels[i].id = x
    THEN <<dels[CHOOSE i \in DOMAIN dels :
                  dels[i].id = x /\ \A j \in 1..(i - 1) : dels[j].id # x]>>
    ELSE <<>>

\* AutonomyPenalty._calculate_distance: the lookup key is the pair of the
\* two locations written as "lat,lon" strings, which no id-keyed matrix
\* holds (an id never has that form here), so the Euclidean fallback on the
\* coordinates is what is returned, in FitnessScale units.
AutonomyDistance(loc1, loc2, matrix) ==
    ISqrt(FitnessScale * FitnessScale *
          ((loc1[1] - loc2[1]) * (loc1[1] - loc2[1])
           + (loc1[2] - loc2[2]) * (loc1[2] - loc2[2])))

\* AutonomyPenalty.calculate: the route distance of one route
AutonomyRouteDistance(route, dels, depot, matrix) ==
    LET first == IF route = <<>> THEN <<>> ELSE FirstDelivery(dels, route[1])
        last  == IF route = <<>> THEN <<>> ELSE FirstDelivery(dels, route[Len(route)])
    IN (IF first # <<>> THEN AutonomyDistance(depot, first[1].location, matrix) ELSE 0)
       + SumSeq([i \in 1..(Len(route) - 1) |->
            LET d1 == FirstDelivery(dels, route[i])
                d2 == FirstDelivery(dels, route[i + 1])
            IN IF d1 # <<>> /\ d2 # <<>>
                  THEN AutonomyDistance(d1[1].location, d2[1].location, matrix)
                  ELSE 0])
       + (IF last # <<>> THEN AutonomyDistance(last[1].location, depot, matrix) ELSE 0)

AutonomyPenalty(sol, dels, vehs, depot, matrix, w) ==
    SumSeq([r \in DOMAIN sol.routes |->
        IF r > Len(vehs) THEN w.autonomy_penalty * UnknownVehiclePenalty * FitnessScale
        ELSE LET rd == AutonomyRouteDistance(sol.routes[r], dels, depot, matrix)
             IN IF rd > vehs[r].max_range * FitnessScale
                   THEN w.autonomy_penalty * (rd - vehs[r].max_range * FitnessScale)
                   ELSE 0])

\* PriorityPenalty.calculate: position (0-based) * weight per critical delivery
PriorityPenalty(sol, dels, w) ==
    LET dd == delivery_dict(dels)
    IN SumSeq([r \in DOMAIN sol.routes |->
         SumSeq([p \in DOMAIN sol.routes[r] |->
            IF sol.routes[r][p] \in DOMAIN dd /\ dd[sol.routes[r][p]].priority = 1
               THEN (p - 1) * w.priority_penalty * FitnessScale
               ELSE 0])])

\* LoadBalancePenalty.calculate: weight * (std_dev / mean) * mean, that is
\* weight * sqrt(n * sum(l^2) - sum(l)^2) / n when the mean is positive
LoadBalancePenalty(sol, dels, w) ==
    IF sol.routes = <<>> THEN 0
    ELSE LET loads == [r \in DOMAIN sol.routes |-> route_weight(sol.routes[r], dels)]
             n     == Len(loads)
             total == SumSeq(loads)
             sq    == SumSeq([r \in DOMAIN loads |-> loads[r] * loads[r]])
         IN IF total > 0
               THEN (w.load_balance_num
                       * ISqrt(FitnessScale * FitnessScale * (n * sq - total * total)))
                    \div (w.load_balance_den * n)
               ELSE 0

\* CompositeFitness.calculate
CompositeFitness(sol, dels, vehs, depot, matrix, w) ==
    DistanceFitness(sol, w)
    + CapacityPenalty(sol, dels, vehs, w)
    + AutonomyPenalty(sol, dels, vehs, depot, matrix, w)
    + PriorityPenalty(sol, dels, w)
    + LoadBalancePenalty(sol, dels, w)
    + w.vehicle_penalty * Len(sol.routes) * FitnessScale

\* CompositeFitness.get_components_breakdown
get_components_breakdown(sol, dels, vehs, depot, matrix, w) ==
    [distance |-> DistanceFitness(sol, w),
     capacity_penalty |-> CapacityPenalty(sol, dels, vehs, w),
     autonomy_penalty |-> AutonomyPenalty(sol, dels, vehs, depot, matrix, w),
     priority_penalty |-> PriorityPenalty(sol, dels, w),
     load_balance_penalty |-> LoadBalancePenalty(sol, dels, w),
     vehicle_penalty |-> w.vehicle_penalty * Len(sol.routes) * FitnessScale]

\* The fields a RouteSolution(...) call must pass: the dataclass has no defaults
RouteSolutionFields ==
    {"routes", "total_distance", "total_cost", "fitness_score", "violations", "metadata"}

\* dataclass __init__: TypeError when a required field is not passed
RouteSolutionInit(passed) ==
    IF RouteSolutionFields \subseteq passed THEN "" ELSE "TypeError"

\* _routes_list_to_solution / _routes_to_solution of the three optimizers:
\* total_distance from the id-keyed matrix, then the two-phase fitness
_routes_to_solution(routes, dels, vehs, depot, matrix, w) ==
    LET td  == _calculate_total_distance(routes, matrix)
        sol == [routes |-> routes, total_distance |-> td]
    IN [routes |-> routes, total_distance |-> td,
        fitness_score |-> CompositeFitness(sol, dels, vehs, depot, matrix, w)]

----------------------------------------------------------------------------
(* validate_solution: the same body in the three optimizers *)

validate_solution(routes, dels, vehs) ==
    LET dd == delivery_dict(dels)
        all_delivery_ids == {dels[i].id : i \in DOMAIN dels}
        solution_delivery_ids == UNION {Range(routes[r]) : r \in DOMAIN routes}
    IN /\ all_delivery_ids = solution_delivery_ids
       /\ \A r \in DOMAIN routes :
            /\ r <= Len(vehs)
            /\ route_weight(routes[r], dels) <= vehs[r].max_capacity

----------------------------------------------------------------------------
(* Greedy optimizer: optimization/greedy_optimizer.py *)

\* The for loop over the candidates of one step: the first candidate, in
\* order, of least distance among those still remaining that fit the
\* vehicle's capacity and range; <<>> when none fits.  A distance that is
\* not < float('inf') is never taken.
RECURSIVE GreedyNearest(_, _, _, _, _, _, _, _, _)
GreedyNearest(candidates, remaining, dd, matrix, vehicle, loc, weight, range, nearest) ==
    IF candidates = <<>> THEN nearest
    ELSE LET id   == Head(candidates)
             dist == MatrixGet(matrix, <<loc, id>>, Inf)
             take == /\ id \in Range(remaining)
                     /\ weight + dd[id].weight <= vehicle.max_capacity
                     /\ range + dist <= vehicle.max_range
                     /\ dist < (IF nearest = <<>> THEN Inf ELSE nearest[2])
         IN GreedyNearest(Tail(candidates), remaining, dd, matrix, vehicle, loc,
                          weight, range, IF take THEN <<id, dist>> ELSE nearest)

\* The while loop that fills one vehicle's route.  st holds route,
\* remaining (the dict's keys, in insertion order), delivery_order,
\* current_location, current_weight and current_range.
RECURSIVE GreedyFillRoute(_, _, _, _)
GreedyFillRoute(st, dd, matrix, vehicle) ==
    IF st.remaining = <<>> THEN st
    ELSE LET candidates == IF st.delivery_order # <<>> THEN st.delivery_order
                           ELSE st.remaining
             nearest == GreedyNearest(candidates, st.remaining, dd, matrix, vehicle,
                            st.loc, st.weight, st.range, <<>>)
         IN IF nearest # <<>> /\ nearest[1] # ""
               THEN GreedyFillRoute(
                      [route |-> Append(st.route, nearest[1]),
                       remaining |-> RemoveFirst(st.remaining, nearest[1]),
                       delivery_order |-> RemoveFirst(st.delivery_order, nearest[1]),
                       loc |-> nearest[1],
                       weight |-> st.weight + dd[nearest[1]].weight,
                       range |-> st.range + nearest[2]],
                      dd, matrix, vehicle)
               ELSE st

\* The for loop over the vehicles: an empty route is not appended
RECURSIVE GreedyVehicles(_, _, _, _, _, _, _)
GreedyVehicles(v, vehs, routes, remaining, delivery_order, dd, matrix) ==
    IF v > Len(vehs) \/ remaining = <<>>
        THEN [routes |-> routes, remaining |-> remaining]
    ELSE LET st == GreedyFillRoute(
                     [route |-> <<>>, remaining |-> remaining,
                      delivery_order |-> delivery_order,
                      loc |-> DepotKey, weight |-> 0, range |-> 0],
                     dd, matrix, vehs[v])
         IN GreedyVehicles(v + 1, vehs,
                IF st.route # <<>> THEN Append(routes, st.route) ELSE routes,
                st.remaining, st.delivery_order, dd, matrix)

\* A greedy without the final while loop: what is left over is dropped
GreedyLeftover_Dropped(routes, remaining) == routes

\* The final while loop: one singleton route per delivery still remaining
GreedyLeftover(routes, remaining) ==
    routes \o [i \in DOMAIN remaining |-> <<remaining[i]>>]

\* _solve_greedy up to the end of the for loop over the vehicles
GreedyFilled(dels, vehs, matrix) ==
    LET dd        == delivery_dict(dels)
        \* the keys of {d.id: d for d in deliveries}, in insertion order
        remaining == [i \in DOMAIN dels |-> dels[i].id]
        critical  == SelectSeq(remaining, LAMBDA x : dd[x].priority = 1)
        normal    == SelectSeq(remaining, LAMBDA x : dd[x].priority # 1)
    IN GreedyVehicles(1, vehs, <<>>, remaining, critical \o normal, dd, matrix)

\* GreedyOptimizer._solve_greedy
_solve_greedy(dels, vehs, matrix) ==
    LET filled == GreedyFilled(dels, vehs, matrix)
    IN GreedyLeftover(filled.routes, filled.remaining)

\* GreedyOptimizer.optimize, the part inside try: the OptimizationResult
GreedyResult(dels, vehs, depot, w) ==
    LET matrix == _build_distance_matrix(dels, depot)
        routes == _solve_greedy(dels, vehs, matrix)
        sol    == _routes_to_solution(routes, dels, vehs, depot, matrix, w)
    IN [solution |-> sol, generations_evolved |-> 1,
        best_fitness_history |-> <<sol.fitness_score>>]

----------------------------------------------------------------------------
(* The three mutation operators, as the SA and the GA each write them.    *)
(* A choice c holds what the random source returned: the operator op; for *)
(* swap the two sampled entries p1 # p2 of all_deliveries; for move the   *)
(* chosen entry p1, the target route r2 and the insert position ins; for  *)
(* reverse the route r2.  Indexes are 1-based, insert positions 0-based.  *)

\* all_deliveries: the (route index, position) pairs, in list order
RECURSIVE AllDeliveriesFrom(_, _)
AllDeliveriesFrom(routes, r) ==
    IF r > Len(routes) THEN <<>>
    ELSE [d \in DOMAIN routes[r] |-> <<r, d>>] \o AllDeliveriesFrom(routes, r + 1)

AllDeliveries(routes) == AllDeliveriesFrom(routes, 1)

SwapDeliveries(routes, p1, p2) ==
    LET all == AllDeliveries(routes)
        a   == all[p1]
        b   == all[p2]
        d1  == routes[a[1]][a[2]]
        d2  == routes[b[1]][b[2]]
        one == [routes EXCEPT ![a[1]][a[2]] = d2]
    IN [one EXCEPT ![b[1]][b[2]] = d1]

\* routes[r1].pop(d1_idx), then routes.pop(r1) if that route became empty
PopDelivery(routes, r1, d1) ==
    LET popped == [routes EXCEPT ![r1] = RemoveAt(@, d1)]
    IN IF popped[r1] = <<>> THEN RemoveAt(popped, r1) ELSE popped

\* SA move: the target index is clamped to the last route after a route was
\* removed; 0 stands for the index -1 of an empty list
SAMoveTarget(routes, c) ==
    LET a  == AllDeliveries(routes)[c.p1]
        nb == PopDelivery(routes, a[1], a[2])
    IN IF Len(nb) < Len(routes) /\ c.r2 > Len(nb) THEN Len(nb) ELSE c.r2

\* SimulatedAnnealingOptimizer._generate_neighbor under the choice c:
\* <<routes>>, or <<>> when the call raises (IndexError: neighbor[-1] of [])
_generate_neighbor(routes, c) ==
    IF c.op = "swap" THEN
        IF Len(AllDeliveries(routes)) >= 2
            THEN <<SwapDeliveries(routes, c.p1, c.p2)>> ELSE <<routes>>
    ELSE IF c.op = "move" THEN
        IF AllDeliveries(routes) = <<>> THEN <<routes>>
        ELSE LET a  == AllDeliveries(routes)[c.p1]
                 nb == PopDelivery(routes, a[1], a[2])
                 r2 == SAMoveTarget(routes, c)
             IN IF r2 = 0 THEN <<>>
                ELSE <<[nb EXCEPT ![r2] = InsertAt(@, c.ins + 1, routes[a[1]][a[2]])]>>
    ELSE IF routes # <<>> /\ routes[c.r2] # <<>>
            THEN <<[routes EXCEPT ![c.r2] = Reverse(@)]>> ELSE <<routes>>

\* What the random source can return to _generate_neighbor for routes
SAChoices(routes) ==
    LET n == Len(AllDeliveries(routes))
        none == [op |-> "", p1 |-> 0, p2 |-> 0, r2 |-> 0, ins |-> 0]
    IN (IF n >= 2
          THEN {[op |-> "swap", p1 |-> i, p2 |-> j, r2 |-> 0, ins |-> 0] :
                  <<i, j>> \in {q \in (1..n) \X (1..n) : q[1] # q[2]}}
          ELSE {[none EXCEPT !.op = "swap"]})
       \cup
       (IF n >= 1
          THEN UNION {
                 LET c0 == [op |-> "move", p1 |-> i, p2 |-> 0, r2 |-> r, ins |-> 0]
                     a  == AllDeliveries(routes)[i]
                     nb == PopDelivery(routes, a[1], a[2])
                     t  == SAMoveTarget(routes, c0)
                 IN IF t = 0 THEN {c0}
                    ELSE {[c0 EXCEPT !.ins = k] : k \in 0..Len(nb[t])}
                 : <<i, r>> \in (1..n) \X (1..Len(routes))}
          ELSE {[none EXCEPT !.op = "move"]})
       \cup
       (IF routes # <<>>
          THEN {[op |-> "reverse", p1 |-> 0, p2 |-> 0, r2 |-> r, ins |-> 0] :
                  r \in 1..Len(routes)}
          ELSE {[none EXCEPT !.op = "reverse"]})

----------------------------------------------------------------------------
(* Simulated Annealing: optimization/simulated_annealing_optimizer.py.    *)
(* A temperature is the exact rational <<numerator, denominator>>.        *)

RatLess(a, b) == a[1] * b[2] < b[1] * a[2]

RatTimes(a, b) ==
    LET n == a[1] * b[1]
        d == a[2] * b[2]
        g == GCD(n, d)
    IN <<n \div g, d \div g>>

\* iterations = config.generations if config.generations > 0 else 1000
SAIterations(cfg) ==
    IF cfg.generations > 0 THEN cfg.generations ELSE SAFallbackIterations

\* _calculate_fitness with the optimizer's own weights
SAFitness(routes, dels, vehs, matrix, w) ==
    CompositeFitness(
        _routes_to_solution(routes, dels, vehs, depot_location, matrix, w),
        dels, vehs, depot_location, matrix, w)

\* _initial_solution: the routes of GreedyOptimizer() (default weights)
_initial_solution(dels, vehs) ==
    GreedyResult(dels, vehs, depot_location, FitnessWeights).solution.routes

\* optimize up to the for loop: validation, the Greedy seed, the bookkeeping
SAStart ==
    /\ optimizer = "simulated_annealing" /\ pc = "called"
    /\ LET e == ValidationError(deliveries, vehicles)
       IN IF e # ""
             THEN /\ pc' = "raised"
                  /\ raised' = WrapOptimizationError(e)
                  /\ UNCHANGED <<distance_matrix, current_solution, current_fitness,
                                 best_solution, best_fitness, best_fitness_history,
                                 temperature, seed_fitness>>
             ELSE LET matrix == _build_distance_matrix(deliveries, depot_location)
                      seed == _initial_solution(deliveries, vehicles)
                      fit  == SAFitness(seed, deliveries, vehicles, matrix,
                                        sa_params.weights)
                  IN /\ distance_matrix' = matrix
                     /\ current_solution' = seed
                     /\ current_fitness' = fit
                     /\ best_solution' = seed
                     /\ best_fitness' = fit
                     /\ best_fitness_history' = <<fit>>
                     /\ temperature' = sa_params.initial_temperature
                     /\ seed_fitness' = fit
                     /\ pc' = "sa_loop"
                     /\ raised' = <<>>
    /\ UNCHANGED <<inputVars, result, gaVars, sa_params, iteration, accepted,
                   solVars, benchVars>>

\* A loop that never looks at the temperature
SATooCold_Never(temp, min_temp) == FALSE

\* if temperature < self.min_temperature: break
SATooCold(temp, min_temp) == RatLess(temp, min_temp)

\* A best solution that follows every accepted neighbor
SAImproves_Always(fit, best) == TRUE

\* if current_fitness < best_fitness: the accepted neighbor is the new best
SAImproves(fit, best) == fit < best

\* The cooled temperature and where the loop goes after this iteration
SACool ==
    /\ temperature' = RatTimes(temperature, sa_params.cooling_rate)
    /\ iteration' = iteration + 1
    /\ pc' = IF SATooCold(temperature', sa_params.min_temperature)
                  \/ iteration' >= SAIterations(config)
             THEN "sa_done" ELSE "sa_loop"

\* One iteration in which the neighbor is accepted: delta < 0, or
\* random.random() < exp(-delta / temperature), certain when delta = 0
SAAccept ==
    /\ optimizer = "simulated_annealing" /\ pc = "sa_loop"
    /\ \E c \in SAChoices(current_solution) :
         LET nb == _generate_neighbor(current_solution, c)
         IN /\ nb # <<>>
            /\ LET fit == SAFitness(nb[1], deliveries, vehicles, distance_matrix,
                                    sa_params.weights)
               IN /\ current_solution' = nb[1]
                  /\ current_fitness' = fit
                  /\ accepted' = accepted \cup {fit}
                  /\ IF SAImproves(fit, best_fitness)
                        THEN /\ best_solution' = nb[1]
                             /\ best_fitness' = fit
                             /\ best_fitness_history' = Append(best_fitness_history, fit)
                        ELSE UNCHANGED <<best_solution, best_fitness,
                                         best_fitness_history>>
    /\ SACool
    /\ UNCHANGED <<inputVars, result, raised, distance_matrix, gaVars, sa_params,
                   seed_fitness, solVars, benchVars>>

\* One iteration in which the neighbor is rejected: delta > 0 and
\* random.random() >= exp(-delta / temperature)
SAReject ==
    /\ optimizer = "simulated_annealing" /\ pc = "sa_loop"
    /\ \E c \in SAChoices(current_solution) :
         LET nb == _generate_neighbor(current_solution, c)
         IN /\ nb # <<>>
            /\ SAFitness(nb[1], deliveries, vehicles, distance_matrix,
                         sa_params.weights) > current_fitness
    /\ SACool
    /\ UNCHANGED <<inputVars, result, raised, distance_matrix, gaVars, sa_params,
                   current_solution, current_fitness, best_solution, best_fitness,
                   best_fitness_history, seed_fitness, accepted, solVars, benchVars>>

\* An iteration whose _generate_neighbor raises: the except clause wraps it
SANeighborRaises ==
    /\ optimizer = "simulated_annealing" /\ pc = "sa_loop"
    /\ \E c \in SAChoices(current_solution) :
         _generate_neighbor(current_solution, c) = <<>>
    /\ pc' = "raised"
    /\ raised' = WrapOptimizationError("IndexError")
    /\ UNCHANGED <<inputVars, result, distance_matrix, gaVars, bestVars, saVars,
                   solVars, benchVars>>

\* After the loop: the best solution is converted and returned
SAReturn ==
    /\ optimizer = "simulated_annealing" /\ pc = "sa_done"
    /\ result' = <<[solution |->
                      _routes_to_solution(best_solution, deliveries, vehicles,
                          depot_location, distance_matrix, sa_params.weights),
                    generations_evolved |-> iteration,
                    best_fitness_history |-> best_fitness_history]>>
    /\ pc' = "returned"
    /\ UNCHANGED <<inputVars, raised, distance_matrix, gaVars, bestVars, saVars,
                   solVars, benchVars>>

----------------------------------------------------------------------------
(* Genetic algorithm: optimization/genetic_algorithm.py.                   *)
(* individuals is the heap of DEAP individuals; population and offspring  *)
(* are lists of references (indices) into it, so that one individual can  *)
(* stand in both lists, or twice in one, as it does in the program.       *)

\* creator.Individual(routes_list) once evaluated
Individual(routes, fit) ==
    [routes |-> routes, has_fitness |-> TRUE, valid |-> TRUE, fitness |-> fit]

\* A plain list, as _redistribute_to_routes builds: no fitness attribute
PlainList(routes) ==
    [routes |-> routes, has_fitness |-> FALSE, valid |-> FALSE, fitness |-> 0]

\* RandomInitializationStrategy.generate_individual for the shuffled ids
generate_individual(delivery_ids, vehs) ==
    LET n == Len(delivery_ids)
        num_vehicles == IF Len(vehs) < n THEN Len(vehs) ELSE n
        chunk(i) == SubSeq(delivery_ids, ((i - 1) * n) \div num_vehicles + 1,
                           (i * n) \div num_vehicles)
    IN SelectSeq([i \in 1..num_vehicles |-> chunk(i)], LAMBDA r : r # <<>>)

\* NearestNeighborInitializationStrategy: the while loop of one vehicle; the
\* nearest of the remaining deliveries that fit by weight and by range, the
\* first of them in list order when several are equally near
RECURSIVE NNFillRoute(_, _)
NNFillRoute(st, vehicle) ==
    LET dist(i) == calculate_distance(st.current_location,
                                      st.remaining[i].location)
        fitting == {i \in DOMAIN st.remaining :
                      /\ st.current_weight + st.remaining[i].weight
                            <= vehicle.max_capacity
                      /\ st.current_range + dist(i) <= vehicle.max_range}
    IN IF fitting = {} THEN st
       ELSE LET n == CHOOSE i \in fitting :
                       \A j \in fitting : dist(i) < dist(j) \/ (dist(i) = dist(j) /\ i <= j)
            IN NNFillRoute([route |-> Append(st.route, st.remaining[n].id),
                            remaining |-> RemoveAt(st.remaining, n),
                            current_location |-> st.remaining[n].location,
                            current_weight |-> st.current_weight + st.remaining[n].weight,
                            current_range |-> st.current_range + dist(n)],
                           vehicle)

\* The for loop over the vehicles, from vehicle v on; what remains at its
\* end is in no route
RECURSIVE NNVehicles(_, _, _, _, _, _)
NNVehicles(v, vehs, routes, remaining, current_location, depot) ==
    IF v > Len(vehs) \/ remaining = <<>> THEN routes
    ELSE LET st == NNFillRoute([route |-> <<>>, remaining |-> remaining,
                                current_location |-> current_location,
                                current_weight |-> 0, current_range |-> 0],
                               vehs[v])
         IN IF st.route # <<>>
               THEN NNVehicles(v + 1, vehs, Append(routes, st.route),
                               st.remaining, depot, depot)
               ELSE NNVehicles(v + 1, vehs, routes, st.remaining,
                               st.current_location, depot)

\* NearestNeighborInitializationStrategy.generate_individual
NearestNeighbor_generate_individual(dels, vehs, depot) ==
    NNVehicles(1, vehs, <<>>, dels, depot, depot)

\* PriorityFirstInitializationStrategy, first loop: the while loop of one
\* vehicle over the critical deliveries, in list order
RECURSIVE PFCriticalRoute(_, _)
PFCriticalRoute(st, vehicle) ==
    IF st.critical_deliveries = <<>> THEN st
    ELSE LET delivery == Head(st.critical_deliveries)
         IN IF st.current_weight + delivery.weight <= vehicle.max_capacity
               THEN PFCriticalRoute(
                      [route |-> Append(st.route, delivery.id),
                       current_weight |-> st.current_weight + delivery.weight,
                       critical_deliveries |-> Tail(st.critical_deliveries)],
                      vehicle)
               ELSE st

\* The first for loop, from vehicle v on: only a non-empty route is kept
RECURSIVE PFCriticalVehicles(_, _, _, _)
PFCriticalVehicles(v, vehs, routes, critical_deliveries) ==
    IF v > Len(vehs) \/ critical_deliveries = <<>> THEN routes
    ELSE LET st == PFCriticalRoute([route |-> <<>>, current_weight |-> 0,
                                    critical_deliveries |-> critical_deliveries],
                                   vehs[v])
         IN PFCriticalVehicles(v + 1, vehs,
                               IF st.route # <<>> THEN Append(routes, st.route)
                               ELSE routes,
                               st.critical_deliveries)

\* routes[vehicle_idx].append(delivery.id), put the other way round
PFPlace_Front(route, id) == <<id>> \o route

\* routes[vehicle_idx].append(delivery.id)
PFPlace(route, id) == Append(route, id)

\* Second loop, for delivery in normal_deliveries[:], from position k of the
\* copy on: a delivery that fits goes to the route and leaves the list
RECURSIVE PFNormalRoute(_, _, _, _)
PFNormalRoute(copy, k, st, vehicle) ==
    IF k > Len(copy) THEN st
    ELSE IF st.current_weight + copy[k].weight <= vehicle.max_capacity
         THEN PFNormalRoute(copy, k + 1,
                [route |-> PFPlace(st.route, copy[k].id),
                 current_weight |-> st.current_weight + copy[k].weight,
                 normal_deliveries |-> RemoveFirst(st.normal_deliveries, copy[k])],
                vehicle)
         ELSE PFNormalRoute(copy, k + 1, st, vehicle)

\* The second for loop, from vehicle v on: the route at the vehicle's index
\* (a new empty one if there is none) takes the normal deliveries that fit
\* next to the weight of the ids already in it
RECURSIVE PFNormalVehicles(_, _, _, _, _)
PFNormalVehicles(v, vehs, routes, normal_deliveries, dels) ==
    IF v > Len(vehs) THEN routes
    ELSE LET rs == IF v > Len(routes) THEN Append(routes, <<>>) ELSE routes
             current_weight ==
                 SumSeq([i \in DOMAIN dels |->
                           IF dels[i].id \in Range(rs[v]) THEN dels[i].weight ELSE 0])
             st == PFNormalRoute(normal_deliveries, 1,
                                 [route |-> rs[v], current_weight |-> current_weight,
                                  normal_deliveries |-> normal_deliveries],
                                 vehs[v])
         IN PFNormalVehicles(v + 1, vehs, [rs EXCEPT ![v] = st.route],
                             st.normal_deliveries, dels)

\* PriorityFirstInitializationStrategy.generate_individual
PriorityFirst_generate_individual(dels, vehs) ==
    LET critical_deliveries == SelectSeq(dels, LAMBDA d : d.priority = 1)
        normal_deliveries   == SelectSeq(dels, LAMBDA d : d.priority # 1)
    IN PFNormalVehicles(1, vehs,
                        PFCriticalVehicles(1, vehs, <<>>, critical_deliveries),
                        normal_deliveries, dels)

\* self.initialization_strategy.generate_individual(...) for the strategy the
\* optimizer was built with; shuffled is what random.shuffle left
InitialIndividual(strategy, shuffled, dels, vehs, depot) ==
    IF strategy = "NearestNeighborInitializationStrategy"
       THEN NearestNeighbor_generate_individual(dels, vehs, depot)
    ELSE IF strategy = "PriorityFirstInitializationStrategy"
       THEN PriorityFirst_generate_individual(dels, vehs)
    ELSE generate_individual(shuffled, vehs)

\* _evaluate_individual
_evaluate_individual(routes, dels, vehs, matrix) ==
    CompositeFitness(
        _routes_to_solution(routes, dels, vehs, depot_location, matrix, FitnessWeights),
        dels, vehs, depot_location, matrix, FitnessWeights)

\* max(aspirants, key=attrgetter("fitness")) under weights (-1.0,): the first
\* aspirant of least fitness value
TournamentWinner(aspirants, heap) ==
    aspirants[FirstMinIndex([k \in DOMAIN aspirants |-> heap[aspirants[k]].fitness])]

\* sorted(..., key=attrgetter("fitness"), reverse=True): stable, least
\* fitness value first
RECURSIVE SortByFitness(_, _)
SortByFitness(refs, heap) ==
    IF refs = <<>> THEN <<>>
    ELSE LET x    == Head(refs)
             rest == SortByFitness(Tail(refs), heap)
             ahead == {j \in DOMAIN rest : heap[rest[j]].fitness < heap[x].fitness}
             k    == IF ahead = {} THEN 0
                     ELSE CHOOSE j \in ahead : \A i \in ahead : i <= j
         IN SubSeq(rest, 1, k) \o <<x>> \o SubSeq(rest, k + 1, Len(rest))

\* tools.selBest(individuals, k)
selBest(refs, k, heap) ==
    LET sorted == SortByFitness(refs, heap)
    IN SubSeq(sorted, 1, IF k < Len(sorted) THEN k ELSE Len(sorted))

\* _replace_with_elitism: selBest(population + offspring, population_size)
_replace_with_elitism(pop, off, k, heap) == selBest(pop \o off, k, heap)

\* The loop of _redistribute_to_routes over the delivery ids, from the state
\* st = [routes, current_route (counted from 0), current_weight]
RECURSIVE RedistributeLoop(_, _, _, _)
RedistributeLoop(ids, st, dd, vehs) ==
    IF ids = <<>> THEN st.routes
    ELSE LET d_id == Head(ids)
         IN IF d_id \notin DOMAIN dd THEN RedistributeLoop(Tail(ids), st, dd, vehs)
            ELSE IF /\ st.current_route < Len(vehs)
                    /\ st.current_weight + dd[d_id].weight
                         <= vehs[st.current_route + 1].max_capacity
                 THEN RedistributeLoop(Tail(ids),
                        [st EXCEPT !.routes[st.current_route + 1] = Append(@, d_id),
                                   !.current_weight = @ + dd[d_id].weight],
                        dd, vehs)
                 ELSE LET next == st.current_route + 1
                          grow == next >= Len(st.routes) /\ next < Len(vehs)
                          rts  == IF grow THEN Append(st.routes, <<>>) ELSE st.routes
                          cr   == IF next >= Len(st.routes) /\ ~grow
                                     THEN Len(st.routes) - 1 ELSE next
                      IN RedistributeLoop(Tail(ids),
                           [routes |-> [rts EXCEPT ![cr + 1] = Append(@, d_id)],
                            current_route |-> cr,
                            current_weight |-> dd[d_id].weight],
                           dd, vehs)

\* The n empty routes _redistribute_to_routes starts from, as a tuple
RECURSIVE EmptyRoutes(_)
EmptyRoutes(n) == IF n = 0 THEN <<>> ELSE Append(EmptyRoutes(n - 1), <<>>)

\* _redistribute_to_routes without its last step, the removal of empty routes
_redistribute_to_routes_KeepEmpty(delivery_ids, num_routes, dels, vehs) ==
    LET n == IF num_routes < Len(vehs) THEN num_routes ELSE Len(vehs)
    IN RedistributeLoop(delivery_ids,
                        [routes |-> EmptyRoutes(n), current_route |-> 0,
                         current_weight |-> 0],
                        delivery_dict(dels), vehs)

\* _redistribute_to_routes
_redistribute_to_routes(delivery_ids, num_routes, dels, vehs) ==
    LET n == IF num_routes < Len(vehs) THEN num_routes ELSE Len(vehs)
        routes == RedistributeLoop(delivery_ids,
                     [routes |-> EmptyRoutes(n), current_route |-> 0,
                      current_weight |-> 0],
                     delivery_dict(dels), vehs)
    IN SelectSeq(routes, LAMBDA r : r # <<>>)

\* _route_crossover past the length test, for the segment flat1[start:end]
_route_crossover(ind1, ind2, start, end, dels, vehs) ==
    LET flat1 == Flatten(ind1)
        flat2 == Flatten(ind2)
        segment1 == SubSeq(flat1, start + 1, end)
        child1_flat == segment1 \o SelectSeq(flat2, LAMBDA d : d \notin Range(segment1))
        segment2 == SubSeq(flat2, start + 1, IF end < Len(flat2) THEN end ELSE Len(flat2))
        child2_flat == segment2 \o SelectSeq(flat1, LAMBDA d : d \notin Range(segment2))
    IN <<_redistribute_to_routes(child1_flat, Len(ind1), dels, vehs),
         _redistribute_to_routes(child2_flat, Len(ind2), dels, vehs)>>

\* _route_mutate under the choice c.  The move picks its target route before
\* the source route can disappear and does not clamp it: a target past the
\* end of the list leaves the popped delivery out.
_route_mutate(routes, c) ==
    IF routes = <<>> THEN routes
    ELSE IF c.op = "swap" THEN
        IF Len(AllDeliveries(routes)) >= 2
            THEN SwapDeliveries(routes, c.p1, c.p2) ELSE routes
    ELSE IF c.op = "move" THEN
        IF AllDeliveries(routes) = <<>> THEN routes
        ELSE LET a  == AllDeliveries(routes)[c.p1]
                 nb == PopDelivery(routes, a[1], a[2])
             IN IF c.r2 <= Len(nb)
                   THEN [nb EXCEPT ![c.r2] = InsertAt(@, c.ins + 1, routes[a[1]][a[2]])]
                   ELSE nb
    ELSE [routes EXCEPT ![c.r2] = Reverse(@)]

\* What the random source can return to _route_mutate for routes
GAChoices(routes) ==
    LET n == Len(AllDeliveries(routes))
        none == [op |-> "", p1 |-> 0, p2 |-> 0, r2 |-> 0, ins |-> 0]
    IN IF routes = <<>> THEN {none}
       ELSE (IF n >= 2
               THEN {[op |-> "swap", p1 |-> i, p2 |-> j, r2 |-> 0, ins |-> 0] :
                       <<i, j>> \in {q \in (1..n) \X (1..n) : q[1] # q[2]}}
               ELSE {[none EXCEPT !.op = "swap"]})
            \cup
            (IF n >= 1
               THEN UNION {
                      LET c0 == [op |-> "move", p1 |-> i, p2 |-> 0, r2 |-> r, ins |-> 0]
                          a  == AllDeliveries(routes)[i]
                          nb == PopDelivery(routes, a[1], a[2])
                      IN IF r > Len(nb) THEN {c0}
                         ELSE {[c0 EXCEPT !.ins = k] : k \in 0..Len(nb[r])}
                      : <<i, r>> \in (1..n) \X (1..Len(routes))}
               ELSE {[none EXCEPT !.op = "move"]})
            \cup
            {[op |-> "reverse", p1 |-> 0, p2 |-> 0, r2 |-> r, ins |-> 0] :
               r \in 1..Len(routes)}

\* The distinct references of refs, in the order of their first occurrence
RECURSIVE Distinct(_)
Distinct(refs) ==
    IF refs = <<>> THEN <<>>
    ELSE LET init == Distinct(SubSeq(refs, 1, Len(refs) - 1))
             x    == refs[Len(refs)]
         IN IF x \in Range(init) THEN init ELSE Append(init, x)

IndexOf(s, x) == CHOOSE i \in DOMAIN s : s[i] = x

\* A source that the seed does not govern: any value, whatever came before
Drawn_Unseeded(S) == S

\* What the module random returns when asked for one of S.  A source seeded
\* as in an earlier run repeats the values of that run, in their order.
Drawn(S) ==
    IF draws.mode = "replay" /\ draws.log # <<>> /\ Head(draws.log) \in S
       THEN {Head(draws.log)} ELSE S

\* The source after it has returned d
Consumed(d) ==
    IF draws.mode = "record" THEN [draws EXCEPT !.log = Append(@, d)]
    ELSE IF draws.mode = "replay" /\ draws.log # <<>>
         THEN [draws EXCEPT !.log = Tail(@)]
    ELSE draws

\* The truth values random.random() < rate can take, rate in percent
RandomBelow(rate) ==
    {b \in BOOLEAN : (b => rate > 0) /\ (~b => rate < 100)}

\* What _crossover draws for the pair at cursor: random.random(), then the
\* two random.randint of _route_crossover when both parents are long enough
CrossoverDraws ==
    LET flat1 == Flatten(individuals[offspring[cursor]].routes)
        flat2 == Flatten(individuals[offspring[cursor + 1]].routes)
    IN {<<b>> : b \in RandomBelow(config.crossover_rate) \ {TRUE}}
       \cup (IF TRUE \notin RandomBelow(config.crossover_rate) THEN {}
             ELSE IF Len(flat1) < 2 \/ Len(flat2) < 2 THEN {<<TRUE>>}
             ELSE {<<TRUE, q[1], q[2]>> :
                     q \in {q \in (0..(Len(flat1) - 1)) \X (1..Len(flat1)) :
                              q[1] < q[2]}})

\* What _mutate draws for the individual at cursor: random.random(), then
\* the choices of _route_mutate
MutateDraws ==
    {<<b>> : b \in RandomBelow(config.mutation_rate) \ {TRUE}}
    \cup (IF TRUE \notin RandomBelow(config.mutation_rate) THEN {}
          ELSE {<<TRUE, c>> : c \in GAChoices(individuals[offspring[cursor]].routes)})

\* optimize up to the for loop: validation, the matrix, the initial
\* population of config.population_size random individuals, their fitness
GAStart ==
    /\ optimizer = "genetic_algorithm" /\ pc = "called"
    /\ LET e == ValidationError(deliveries, vehicles)
       IN IF e # ""
             THEN /\ pc' = "raised"
                  /\ raised' = WrapOptimizationError(e)
                  /\ UNCHANGED <<distance_matrix, individuals, population, draws>>
             ELSE LET matrix == _build_distance_matrix(deliveries, depot_location)
                      ids    == [i \in DOMAIN deliveries |-> deliveries[i].id]
                  IN /\ distance_matrix' = matrix
                     /\ \E shuffled \in
                            Drawn([1..config.population_size -> Shuffles(ids)]) :
                          /\ individuals' =
                               [i \in 1..config.population_size |->
                                  LET routes ==
                                        InitialIndividual(
                                          IF created = <<>>
                                             THEN "RandomInitializationStrategy"
                                             ELSE created[1].initialization_strategy,
                                          shuffled[i], deliveries, vehicles,
                                          depot_location)
                                  IN Individual(routes,
                                       _evaluate_individual(routes, deliveries,
                                                            vehicles, matrix))]
                          /\ draws' = Consumed(shuffled)
                     /\ population' = [i \in 1..config.population_size |-> i]
                     /\ pc' = IF config.generations > 0 THEN "ga_select" ELSE "ga_done"
                     /\ raised' = <<>>
    /\ best_fitness_history' = <<>>
    /\ best_fitness' = Inf
    /\ generations_without_improvement' = 0
    /\ offspring' = <<>>
    /\ cursor' = 1
    /\ UNCHANGED <<inputVars, result, generation, first_run, at_selection, saVars, solVars,
                   benchVars>>

\* The routes and the fitness of the individuals refs points to
RECURSIVE Snapshot(_, _)
Snapshot(refs, heap) ==
    IF refs = <<>> THEN <<>>
    ELSE <<[routes |-> heap[Head(refs)].routes, fitness |-> heap[Head(refs)].fitness]>>
         \o Snapshot(Tail(refs), heap)

\* _select: one tournament of tools.selTournament; the winner itself, not a
\* copy of it, joins the offspring
GASelect ==
    /\ optimizer = "genetic_algorithm" /\ pc = "ga_select"
    /\ \E asp \in Drawn([1..TournSize -> DOMAIN population]) :
         /\ offspring' = Append(offspring,
                           TournamentWinner([k \in 1..TournSize |-> population[asp[k]]],
                                            individuals))
         /\ draws' = Consumed(asp)
    /\ at_selection' = Snapshot(population, individuals)
    /\ IF Len(offspring') = Len(population)
          THEN pc' = "ga_crossover" /\ cursor' = 1
          ELSE UNCHANGED <<pc, cursor>>
    /\ UNCHANGED <<inputVars, result, raised, distance_matrix, individuals,
                   population, generation, generations_without_improvement,
                   first_run, bestVars, saVars, solVars, benchVars>>

\* Where _crossover goes after the pair at cursor
CrossoverAdvance ==
    IF cursor + 2 < Len(offspring)
       THEN pc' = "ga_crossover" /\ cursor' = cursor + 2
       ELSE pc' = "ga_mutate" /\ cursor' = 1

\* _crossover: a pair that random.random() >= crossover_rate leaves alone
GACrossoverSkip ==
    /\ optimizer = "genetic_algorithm" /\ pc = "ga_crossover"
    /\ IF cursor >= Len(offspring) THEN UNCHANGED draws
       ELSE \E d \in Drawn(CrossoverDraws) :
              d = <<FALSE>> /\ draws' = Consumed(d)
    /\ CrossoverAdvance
    /\ UNCHANGED <<inputVars, result, raised, distance_matrix, individuals,
                   population, offspring, generation,
                   generations_without_improvement, first_run, at_selection, bestVars, saVars,
                   solVars, benchVars>>

\* _crossover: a pair whose parents are too short to cross is handed back
\* by _route_crossover, and the fitness of both parents is deleted
GACrossoverShort ==
    /\ optimizer = "genetic_algorithm" /\ pc = "ga_crossover"
    /\ cursor < Len(offspring)
    /\ \E d \in Drawn(CrossoverDraws) : d = <<TRUE>> /\ draws' = Consumed(d)
    /\ individuals' = [i \in DOMAIN individuals |->
                         IF i \in {offspring[cursor], offspring[cursor + 1]}
                            THEN [individuals[i] EXCEPT !.valid = FALSE, !.fitness = 0]
                            ELSE individuals[i]]
    /\ CrossoverAdvance
    /\ UNCHANGED <<inputVars, result, raised, distance_matrix, population,
                   offspring, generation, generations_without_improvement,
                   first_run, at_selection, bestVars, saVars, solVars, benchVars>>

\* _crossover: a pair that is crossed.  The children are the plain lists of
\* _redistribute_to_routes, and del offspring[i].fitness.values raises
\* AttributeError on the first of them; optimize wraps it.
GACrossoverRaises ==
    /\ optimizer = "genetic_algorithm" /\ pc = "ga_crossover"
    /\ cursor < Len(offspring)
    /\ LET ind1 == individuals[offspring[cursor]].routes
           ind2 == individuals[offspring[cursor + 1]].routes
           n    == Len(individuals)
       IN \E d \in Drawn(CrossoverDraws) :
            /\ Len(d) = 3
            /\ LET children == _route_crossover(ind1, ind2, d[2], d[3],
                                                deliveries, vehicles)
               IN /\ individuals' = individuals \o <<PlainList(children[1]),
                                                     PlainList(children[2])>>
                  /\ offspring' = [offspring EXCEPT ![cursor] = n + 1,
                                                    ![cursor + 1] = n + 2]
            /\ draws' = Consumed(d)
    /\ pc' = "raised"
    /\ raised' = WrapOptimizationError("AttributeError")
    /\ UNCHANGED <<inputVars, result, distance_matrix, population, cursor,
                   generation, generations_without_improvement, first_run, at_selection,
                   bestVars, saVars, solVars, benchVars>>

\* Where _mutate goes after the individual at cursor
MutateAdvance ==
    /\ cursor' = cursor + 1
    /\ pc' = IF cursor < Len(offspring) THEN "ga_mutate" ELSE "ga_evaluate"

\* _mutate: an individual that random.random() >= mutation_rate leaves alone
GAMutateSkip ==
    /\ optimizer = "genetic_algorithm" /\ pc = "ga_mutate"
    /\ \E d \in Drawn(MutateDraws) : d = <<FALSE>> /\ draws' = Consumed(d)
    /\ MutateAdvance
    /\ UNCHANGED <<inputVars, result, raised, distance_matrix, individuals,
                   population, offspring, generation,
                   generations_without_improvement, first_run, at_selection, bestVars, saVars,
                   solVars, benchVars>>

\* _mutate: _route_mutate changes the individual in place, whichever lists
\* hold it, and its fitness is deleted
GAMutate ==
    /\ optimizer = "genetic_algorithm" /\ pc = "ga_mutate"
    /\ \E d \in Drawn(MutateDraws) :
         /\ Len(d) = 2
         /\ individuals' = [individuals EXCEPT ![offspring[cursor]] =
                              [@ EXCEPT !.routes = _route_mutate(@, d[2]),
                                        !.valid = FALSE, !.fitness = 0]]
         /\ draws' = Consumed(d)
    /\ MutateAdvance
    /\ UNCHANGED <<inputVars, result, raised, distance_matrix, population,
                   offspring, generation, generations_without_improvement,
                   first_run, at_selection, bestVars, saVars, solVars, benchVars>>

\* The heap once every individual of the offspring without a valid fitness
\* has been evaluated
Evaluated(heap, off, dels, vehs, matrix) ==
    [i \in DOMAIN heap |->
       IF i \in Range(off) /\ ~heap[i].valid
          THEN [heap[i] EXCEPT !.valid = TRUE,
                               !.fitness = _evaluate_individual(heap[i].routes, dels,
                                                                vehs, matrix)]
          ELSE heap[i]]

\* The evaluation of the offspring whose fitness is not valid
GAEvaluate ==
    /\ optimizer = "genetic_algorithm" /\ pc = "ga_evaluate"
    /\ individuals' = Evaluated(individuals, offspring, deliveries, vehicles,
                                distance_matrix)
    /\ pc' = "ga_replace"
    /\ UNCHANGED <<inputVars, result, raised, distance_matrix, population,
                   offspring, cursor, generation, generations_without_improvement,
                   draws, first_run, at_selection, bestVars, saVars, solVars,
                   benchVars>>

\* A loop whose only exit is the end of range(config.generations)
GALoopEnds_NoEarlyStopping(without, rounds, cfg) == rounds >= cfg.generations

\* Whether the for loop ends after a round: the break of the early stopping
\* test (None and 0 are both falsy), or range(config.generations) exhausted
GALoopEnds(without, rounds, cfg) ==
    \/ /\ cfg.max_iterations_without_improvement # 0
       /\ without >= cfg.max_iterations_without_improvement
    \/ rounds >= cfg.generations

\* The rest of one generation: _replace_with_elitism, the statistics and
\* the early stopping test.  Individuals that the new population does not
\* hold are garbage.
GAReplace ==
    /\ optimizer = "genetic_algorithm" /\ pc = "ga_replace"
    /\ LET new_pop == _replace_with_elitism(population, offspring,
                                            config.population_size, individuals)
           kept    == Distinct(new_pop)
           fits    == [i \in DOMAIN new_pop |-> individuals[new_pop[i]].fitness]
           current_best == SetMin(Range(fits))
           without == IF current_best < best_fitness
                         THEN 0 ELSE generations_without_improvement + 1
       IN /\ individuals' = [k \in DOMAIN kept |-> individuals[kept[k]]]
          /\ population' = [i \in DOMAIN new_pop |-> IndexOf(kept, new_pop[i])]
          /\ best_fitness_history' = Append(best_fitness_history, current_best)
          /\ best_fitness' = IF current_best < best_fitness
                                THEN current_best ELSE best_fitness
          /\ generations_without_improvement' = without
          /\ generation' = generation + 1
          /\ pc' = IF GALoopEnds(without, generation + 1, config)
                      THEN "ga_done" ELSE "ga_select"
    /\ offspring' = <<>>
    /\ cursor' = 1
    /\ UNCHANGED <<inputVars, result, raised, distance_matrix, draws, first_run,
                   at_selection, saVars, solVars, benchVars>>

\* After the loop: tools.selBest(population, 1)[0] is converted and returned.
\* When the loop body never ran, generation + 1 raises NameError.
GAReturn ==
    /\ optimizer = "genetic_algorithm" /\ pc = "ga_done"
    /\ IF generation = 0
          THEN /\ pc' = "raised"
               /\ raised' = WrapOptimizationError("NameError")
               /\ UNCHANGED result
          ELSE /\ pc' = "returned"
               /\ result' =
                    <<[solution |->
                         _routes_to_solution(
                             individuals[selBest(population, 1, individuals)[1]].routes,
                             deliveries, vehicles, depot_location, distance_matrix,
                             FitnessWeights),
                       generations_evolved |-> generation,
                       best_fitness_history |-> best_fitness_history]>>
               /\ UNCHANGED raised
    /\ UNCHANGED <<inputVars, distance_matrix, gaVars, bestVars, saVars, solVars,
                   benchVars>>

----------------------------------------------------------------------------
(* Local search: optimization/local_search.py.  solution holds the routes *)
(* of the RouteSolution handed to improve_solution; current_solution,     *)
(* current_fitness and iteration are its locals of these names.           *)

\* The first inversion best_route[:i] + best_route[i:j][::-1] + best_route[j:],
\* in the order of the two for loops, that shortens the route; <<>> if none
TwoOptFirstImprovement(best_route, matrix) ==
    LET n     == Len(best_route)
        inv(i, j) == SubSeq(best_route, 1, i) \o Reverse(SubSeq(best_route, i + 1, j))
                     \o SubSeq(best_route, j + 1, n)
        good  == {p \in (1..(n - 3)) \X (3..(n - 1)) :
                    /\ p[2] >= p[1] + 2
                    /\ _calculate_route_distance(inv(p[1], p[2]), matrix)
                         < _calculate_route_distance(best_route, matrix)}
    IN IF good = {} THEN <<>>
       ELSE LET first == CHOOSE p \in good :
                           \A q \in good : p[1] < q[1] \/ (p[1] = q[1] /\ p[2] <= q[2])
            IN <<inv(first[1], first[2])>>

\* The while loop of _two_opt
RECURSIVE TwoOptLoop(_, _)
TwoOptLoop(best_route, matrix) ==
    LET better == TwoOptFirstImprovement(best_route, matrix)
    IN IF better = <<>> THEN best_route ELSE TwoOptLoop(better[1], matrix)

\* _two_opt
_two_opt(route, matrix) ==
    IF Len(route) < 4 THEN route ELSE TwoOptLoop(route, matrix)

\* One attempt of _balance_loads that moves delivery d, if it may
BalanceMove(st, d, dd, vehs) ==
    LET max_idx == FirstMaxIndex(st.route_loads)
        min_idx == FirstMinIndex(st.route_loads)
    IN IF /\ d \in DOMAIN dd
          /\ min_idx <= Len(vehs)
          /\ st.route_loads[min_idx] + dd[d].weight <= vehs[min_idx].max_capacity
       THEN LET removed == [st.new_routes EXCEPT ![max_idx] = RemoveFirst(@, d)]
                less    == [st.route_loads EXCEPT ![max_idx] = @ - dd[d].weight]
            IN [new_routes  |-> [removed EXCEPT ![min_idx] = Append(@, d)],
                route_loads |-> [less EXCEPT ![min_idx] = @ + dd[d].weight]]
       ELSE st

\* The for loop of _balance_loads: every list of routes it can end with,
\* over the outcomes of random.choice, in at most attempts more attempts.
\* total is the sum of the loads at the start: mean_load is total / n.
RECURSIVE BalanceLoop(_, _, _, _, _)
BalanceLoop(st, attempts, total, dd, vehs) ==
    LET max_idx == FirstMaxIndex(st.route_loads)
        n       == Len(st.route_loads)
    IN IF \/ attempts = 0
          \/ st.route_loads[max_idx] * n * 10 <= total * 11
          \/ st.new_routes[max_idx] = <<>>
       THEN {st.new_routes}
       ELSE UNION {BalanceLoop(next, attempts - 1, total, dd, vehs) :
                     next \in {BalanceMove(st, d, dd, vehs) :
                                 d \in Range(st.new_routes[max_idx])}}

\* route_loads of _balance_loads: the load of every route, in order
RECURSIVE RouteLoads(_, _)
RouteLoads(routes, dels) ==
    IF routes = <<>> THEN <<>>
    ELSE <<route_weight(Head(routes), dels)>> \o RouteLoads(Tail(routes), dels)

\* new_routes of improve_solution: _two_opt on every route, in order
RECURSIVE TwoOptRoutes(_, _)
TwoOptRoutes(routes, matrix) ==
    IF routes = <<>> THEN <<>>
    ELSE <<_two_opt(Head(routes), matrix)>> \o TwoOptRoutes(Tail(routes), matrix)

\* _balance_loads: the lists of routes it can return
_balance_loads(routes, dels, vehs) ==
    IF Len(routes) < 2 THEN {routes}
    ELSE LET route_loads == RouteLoads(routes, dels)
         IN BalanceLoop([new_routes |-> routes, route_loads |-> route_loads],
                        BalanceAttempts, SumSeq(route_loads), delivery_dict(dels), vehs)

\* The keywords of the RouteSolution(...) call of improve_solution
LSRouteSolutionArgs ==
    {"routes", "total_distance", "total_cost", "fitness_score", "violations"}

\* fitness_calculator.calculate on routes whose total_distance is LocalSearch's
LSFitness(routes, dels, vehs, matrix) ==
    CompositeFitness([routes |-> routes,
                      total_distance |-> _calculate_total_distance(routes, matrix)],
                     dels, vehs, depot_location, matrix, FitnessWeights)

\* improve_solution up to the while loop
LSStart ==
    /\ optimizer = "local_search" /\ pc = "called"
    /\ current_solution' = solution
    /\ current_fitness' = LSFitness(solution, deliveries, vehicles, distance_matrix)
    /\ iteration' = 0
    /\ pc' = "ls_loop"
    /\ UNCHANGED <<inputVars, result, raised, distance_matrix, gaVars, bestVars,
                   sa_params, best_solution, temperature, seed_fitness, accepted,
                   solVars, benchVars>>

\* One pass of the while loop: 2-opt on every route, the load balancing, the
\* new RouteSolution, and its acceptance if its fitness is strictly lower.
\* The RouteSolution(...) call raises when a required field is not passed.
LSPass ==
    /\ optimizer = "local_search" /\ pc = "ls_loop"
    /\ iteration < max_iterations
    /\ iteration' = iteration + 1
    /\ \E balanced_routes \in
            _balance_loads(TwoOptRoutes(current_solution, distance_matrix),
                           deliveries, vehicles) :
         LET e == RouteSolutionInit(LSRouteSolutionArgs)
             new_fitness == LSFitness(balanced_routes, deliveries, vehicles,
                                      distance_matrix)
         IN IF e # ""
               THEN /\ pc' = "raised"
                    /\ raised' = <<e>>
                    /\ UNCHANGED <<current_solution, current_fitness>>
               ELSE /\ UNCHANGED raised
                    /\ IF new_fitness < current_fitness
                          THEN /\ current_solution' = balanced_routes
                               /\ current_fitness' = new_fitness
                               /\ pc' = "ls_loop"
                          ELSE /\ pc' = "ls_done"
                               /\ UNCHANGED <<current_solution, current_fitness>>
    /\ UNCHANGED <<inputVars, result, distance_matrix, gaVars, bestVars, sa_params,
                   best_solution, temperature, seed_fitness, accepted, solVars,
                   benchVars>>

\* The loop is over: return current_solution
LSReturn ==
    /\ optimizer = "local_search"
    /\ pc = "ls_done" \/ (pc = "ls_loop" /\ iteration >= max_iterations)
    /\ result' = <<[solution |->
                      [routes |-> current_solution,
                       fitness_score |-> current_fitness]]>>
    /\ pc' = "returned"
    /\ UNCHANGED <<inputVars, raised, distance_matrix, gaVars, bestVars, saVars,
                   solVars, benchVars>>

----------------------------------------------------------------------------
(* Benchmark: optimization/benchmark.py.  algorithms is the argument of   *)
(* run_benchmark, [given |-> FALSE] standing for None; execution times    *)
(* are in milliseconds; run_log is what the loop prints, run by run.      *)

\* list(self.algorithms.keys())
AlgorithmNames == <<"genetic_algorithm", "greedy", "simulated_annealing">>

\* if algorithms is None: algorithms = list(self.algorithms.keys())
BenchAlgorithms ==
    IF algorithms.given THEN algorithms.names ELSE AlgorithmNames

\* A loop that an exception would end
BenchAfterException_Abort(idx, n) == n + 1

\* except Exception as e: print(...); the for loop goes on with the next name
BenchAfterException(idx, n) == idx + 1

\* A ranking by execution time
BestKey_Time(x) == x.execution_time

\* key=lambda x: x.fitness_score
BestKey(x) == x.fitness_score

\* min(algorithm_results, key=fitness_score / max(execution_time, 0.001)):
\* the first result of least ratio
MostEfficient(results) ==
    LET t(x) == IF x.execution_time > MinExecutionTime
                   THEN x.execution_time ELSE MinExecutionTime
        le(x, y) == x.fitness_score * t(y) <= y.fitness_score * t(x)
    IN results[CHOOSE i \in DOMAIN results :
                 /\ \A j \in DOMAIN results : le(results[i], results[j])
                 /\ \A j \in 1..(i - 1) : ~le(results[j], results[i])]

\* _analyze_results; "" stands for None and <<>> for the empty summary
_analyze_results(results) ==
    IF results = <<>>
       THEN [algorithm_results |-> <<>>, best_algorithm |-> "",
             fastest_algorithm |-> "", most_efficient_algorithm |-> "",
             summary |-> <<>>]
       ELSE LET fits  == {results[i].fitness_score : i \in DOMAIN results}
                times == {results[i].execution_time : i \in DOMAIN results}
            IN [algorithm_results |-> results,
                best_algorithm |->
                    results[FirstMinIndex([i \in DOMAIN results |->
                                             BestKey(results[i])])].algorithm_name,
                fastest_algorithm |->
                    results[FirstMinIndex([i \in DOMAIN results |->
                                             results[i].execution_time])].algorithm_name,
                most_efficient_algorithm |-> MostEfficient(results).algorithm_name,
                summary |->
                    [total_algorithms |-> Len(results),
                     best_fitness  |-> SetMin(fits),
                     worst_fitness |-> CHOOSE f \in fits : \A g \in fits : g <= f,
                     fastest_time  |-> SetMin(times),
                     slowest_time  |-> CHOOSE t \in times : \A u \in times : u <= t]]

\* What optimizer.optimize and optimizer.validate_solution can hand back to
\* run_benchmark on valid input: Greedy its one solution, Simulated
\* Annealing that fitness or a lower one, the genetic algorithm any
BenchOutcomes(name, dels, vehs) ==
    LET greedy == GreedyResult(dels, vehs, depot_location, FitnessWeights).solution
        g      == greedy.fitness_score
    IN IF name = "greedy"
          THEN {[fitness_score |-> g, execution_time |-> t,
                 is_valid |-> validate_solution(greedy.routes, dels, vehs)] :
                  t \in {0, 2}}
       ELSE IF name = "simulated_annealing"
          THEN [fitness_score : {g - FitnessScale, g}, execution_time : {0, 2},
                is_valid : BOOLEAN]
       ELSE [fitness_score : {g - FitnessScale, g + FitnessScale},
             execution_time : {0, 2}, is_valid : BOOLEAN]

\* run_benchmark up to the for loop
BenchStart ==
    /\ optimizer = "benchmark" /\ pc = "called"
    /\ algorithm_results' = <<>>
    /\ algo_idx' = 1
    /\ pc' = "bench_loop"
    /\ UNCHANGED <<inputVars, result, raised, distance_matrix, gaVars, bestVars,
                   saVars, solVars, algorithms, benchmark_result, run_log>>

\* A name that self.algorithms does not know is skipped
BenchSkipUnknown ==
    /\ optimizer = "benchmark" /\ pc = "bench_loop"
    /\ algo_idx <= Len(BenchAlgorithms)
    /\ BenchAlgorithms[algo_idx] \notin Range(AlgorithmNames)
    /\ run_log' = Append(run_log, <<BenchAlgorithms[algo_idx], "not found">>)
    /\ algo_idx' = algo_idx + 1
    /\ UNCHANGED <<inputVars, callVars, gaVars, bestVars, saVars, solVars,
                   algorithms, algorithm_results, benchmark_result>>

\* The try block runs to its end: the run is appended to algorithm_results
BenchRunCompletes ==
    /\ optimizer = "benchmark" /\ pc = "bench_loop"
    /\ algo_idx <= Len(BenchAlgorithms)
    /\ BenchAlgorithms[algo_idx] \in Range(AlgorithmNames)
    /\ ValidationError(deliveries, vehicles) = ""
    /\ \E o \in BenchOutcomes(BenchAlgorithms[algo_idx], deliveries, vehicles) :
         algorithm_results' =
             Append(algorithm_results,
                    [algorithm_name |-> BenchAlgorithms[algo_idx],
                     fitness_score |-> o.fitness_score,
                     execution_time |-> o.execution_time,
                     is_valid |-> o.is_valid])
    /\ run_log' = Append(run_log, <<BenchAlgorithms[algo_idx], "completed">>)
    /\ algo_idx' = algo_idx + 1
    /\ UNCHANGED <<inputVars, callVars, gaVars, bestVars, saVars, solVars,
                   algorithms, benchmark_result>>

\* optimize raises: on malformed input every optimizer does, on valid input
\* the genetic algorithm (a crossover) and Simulated Annealing (a move that
\* empties the neighbor) can.  The except clause prints and goes on.
BenchRunRaises ==
    /\ optimizer = "benchmark" /\ pc = "bench_loop"
    /\ algo_idx <= Len(BenchAlgorithms)
    /\ BenchAlgorithms[algo_idx] \in Range(AlgorithmNames)
    /\ \/ ValidationError(deliveries, vehicles) # ""
       \/ BenchAlgorithms[algo_idx] \in {"genetic_algorithm", "simulated_annealing"}
    /\ run_log' = Append(run_log, <<BenchAlgorithms[algo_idx], "error">>)
    /\ algo_idx' = BenchAfterException(algo_idx, Len(BenchAlgorithms))
    /\ UNCHANGED <<inputVars, callVars, gaVars, bestVars, saVars, solVars,
                   algorithms, algorithm_results, benchmark_result>>

\* After the loop: _analyze_results, and its BenchmarkResult is returned
BenchAnalyze ==
    /\ optimizer = "benchmark" /\ pc = "bench_loop"
    /\ algo_idx > Len(BenchAlgorithms)
    /\ benchmark_result' = <<_analyze_results(algorithm_results)>>
    /\ pc' = "returned"
    /\ UNCHANGED <<inputVars, result, raised, distance_matrix, gaVars, bestVars,
                   saVars, solVars, algorithms, algo_idx, algorithm_results,
                   run_log>>

----------------------------------------------------------------------------
(* Values of the variables a specification does not use *)

NoSAParams == [initial_temperature |-> <<0, 1>>, cooling_rate |-> <<0, 1>>,
               min_temperature |-> <<0, 1>>, weights |-> FitnessWeights]
NoDraws == [mode |-> "free", log |-> <<>>]
NoConfig == [population_size |-> 0, generations |-> 0, crossover_rate |-> 0,
             mutation_rate |-> 0, max_iterations_without_improvement |-> 0]

CallIdle  == pc = "called" /\ result = <<>> /\ raised = <<>> /\ distance_matrix = <<>>
GAIdle    == /\ individuals = <<>> /\ population = <<>> /\ offspring = <<>>
             /\ cursor = 0 /\ generation = 0 /\ generations_without_improvement = 0
             /\ draws = NoDraws /\ first_run = <<>> /\ at_selection = <<>>
BestIdle  == best_fitness_history = <<>> /\ best_fitness = Inf
SAIdle    == /\ sa_params = NoSAParams /\ current_solution = <<>>
             /\ current_fitness = 0 /\ best_solution = <<>> /\ temperature = <<0, 1>>
             /\ iteration = 0 /\ seed_fitness = 0 /\ accepted = {}
SolIdle   == solution = <<>> /\ verdict = <<>> /\ max_iterations = 0
NoFactoryConfig == [initialization_strategy |-> "", sa_config |-> <<>>]
FactoryIdle == optimizer_type = "" /\ factory_config = NoFactoryConfig /\ created = <<>>
BenchIdle == /\ algorithms = [given |-> FALSE, names |-> <<>>]
             /\ algo_idx = 0 /\ algorithm_results = <<>>
             /\ benchmark_result = <<>> /\ run_log = <<>>

----------------------------------------------------------------------------
(* Inputs *)

Delivery(id, lat, priority, weight) ==
    [id |-> id, location |-> <<lat, 0>>, priority |-> priority, weight |-> weight]

Vehicle(cap, range) ==
    [max_capacity |-> cap, max_range |-> range,
     fuel_cost_per_km |-> 1, driver_cost_per_hour |-> 20]

\* Valid delivery lists of one to three deliveries D1, D2, D3 at 1, 3 and 2
\* degrees from the depot, of either priority and of weight 1 or 2
DeliveryLists ==
    LET D1 == {Delivery("D1", 1, p, w) : p \in {1, 2}, w \in {1, 2}}
        D2 == {Delivery("D2", 3, p, w) : p \in {1, 2}, w \in {1, 2}}
        D3 == {Delivery("D3", 2, p, w) : p \in {1, 2}, w \in {1, 2}}
    IN {<<a>> : a \in D1} \cup {<<a, b>> : a \in D1, b \in D2}
         \cup {<<a, b, c>> : a \in D1, b \in D2, c \in D3}

\* Fleets of one or two vehicles, of capacity 2 or 3 and a range that
\* reaches one or all of the deliveries; and a fleet whose first vehicle is
\* too small for a delivery of weight 2
VehicleLists ==
    LET V == {Vehicle(c, r) : c \in {2, 3}, r \in {250, 1000}}
    IN {<<a>> : a \in V} \cup {<<a, b>> : a \in V, b \in V}
         \cup {<<Vehicle(1, 1000), Vehicle(3, 1000)>>}

----------------------------------------------------------------------------
(* GreedyOptimizer.optimize *)

GreedyOptimize ==
    /\ optimizer = "greedy" /\ pc = "called"
    /\ LET e == ValidationError(deliveries, vehicles)
       IN IF e # ""
             THEN /\ pc' = "raised"
                  /\ raised' = WrapOptimizationError(e)
                  /\ UNCHANGED <<result, distance_matrix>>
             ELSE /\ pc' = "returned"
                  /\ distance_matrix' = _build_distance_matrix(deliveries, depot_location)
                  /\ result' = <<GreedyResult(deliveries, vehicles, depot_location,
                                              FitnessWeights)>>
                  /\ raised' = <<>>
    /\ UNCHANGED <<inputVars, gaVars, bestVars, saVars, solVars, benchVars>>

InitGreedy ==
    /\ optimizer = "greedy"
    /\ deliveries \in DeliveryLists
    /\ vehicles \in VehicleLists
    /\ config = NoConfig
    /\ CallIdle /\ GAIdle /\ BestIdle /\ SAIdle /\ SolIdle /\ BenchIdle /\ FactoryIdle

SpecGreedy == InitGreedy /\ [][GreedyOptimize]_vars

\* Scenario A: D1..D5 of weights 10, 5, 15, 8, 12 at one or two degrees
\* from the depot, none or two of them critical, and two vehicles of
\* max_capacity 50 whose range reaches nothing or everything
ScenarioA ==
    {<<[i \in 1..5 |->
          Delivery(<<"D1", "D2", "D3", "D4", "D5">>[i], lat[i],
                   IF i \in critical THEN 1 ELSE 2, <<10, 5, 15, 8, 12>>[i])],
       <<Vehicle(50, r1), Vehicle(50, r2)>>>> :
        lat \in [1..5 -> {1, 2}], critical \in {{}, {2, 4}},
        r1 \in {100, 5000}, r2 \in {100, 5000}}

InitScenarioA ==
    /\ optimizer = "greedy"
    /\ \E inp \in ScenarioA : deliveries = inp[1] /\ vehicles = inp[2]
    /\ config = NoConfig
    /\ CallIdle /\ GAIdle /\ BestIdle /\ SAIdle /\ SolIdle /\ BenchIdle /\ FactoryIdle

SpecScenarioA == InitScenarioA /\ [][GreedyOptimize]_vars

----------------------------------------------------------------------------
(* SimulatedAnnealingOptimizer.optimize *)

\* Weights other than the default, for an SA built with fitness_weights=...
DistanceOnlyWeights ==
    [FitnessWeights EXCEPT !.priority_penalty = 0, !.vehicle_penalty = 0]

\* initial_temperature=10, cooling_rate=0.5, min_temperature=1
ScenarioD == [initial_temperature |-> <<10, 1>>, cooling_rate |-> <<1, 2>>,
              min_temperature |-> <<1, 1>>, weights |-> DistanceOnlyWeights]

\* The defaults of __init__: 1000.0, 0.95, 0.1
SADefaults == [initial_temperature |-> <<1000, 1>>, cooling_rate |-> <<19, 20>>,
               min_temperature |-> <<1, 10>>, weights |-> FitnessWeights]

SAConfig(g) == [NoConfig EXCEPT !.population_size = 1, !.generations = g]

\* The runs: three deliveries and a fleet that takes them all, under
\* Scenario D for any config.generations (0 asks for the 1000 iterations);
\* one delivery and one vehicle, likewise; two deliveries and a fleet too
\* small for them, under the default cooling, which a run of at most
\* MaxSAGenerations iterations never cools below min_temperature
SARuns ==
    {<<<<Delivery("D1", 1, 2, 1), Delivery("D2", 3, 1, 2), Delivery("D3", 2, 2, 1)>>,
       <<Vehicle(3, 1000), Vehicle(3, 1000)>>, ScenarioD, g>> : g \in {0, MaxSAGenerations}}
    \cup
    {<<<<Delivery("D1", 1, 1, 2)>>, <<Vehicle(3, 1000)>>, ScenarioD, g>> :
        g \in (-1)..MaxSAGenerations}
    \cup
    {<<<<Delivery("D1", 1, 2, 2), Delivery("D2", 3, 1, 2)>>, <<Vehicle(3, 250)>>,
       SADefaults, g>> : g \in 1..MaxSAGenerations}

InitSA ==
    /\ optimizer = "simulated_annealing"
    /\ \E run \in SARuns :
         /\ deliveries = run[1] /\ vehicles = run[2]
         /\ sa_params = run[3] /\ config = SAConfig(run[4])
    /\ current_solution = <<>> /\ current_fitness = 0 /\ best_solution = <<>>
    /\ temperature = <<0, 1>> /\ iteration = 0 /\ seed_fitness = 0 /\ accepted = {}
    /\ CallIdle /\ GAIdle /\ BestIdle /\ SolIdle /\ BenchIdle /\ FactoryIdle

NextSA == SAStart \/ SAAccept \/ SAReject \/ SANeighborRaises \/ SAReturn

SpecSA == InitSA /\ [][NextSA]_vars

----------------------------------------------------------------------------
(* The genetic algorithm on one or two deliveries, a population of two    *)
(* and at most MaxGenerations generations                                 *)

\* Two deliveries whose vehicles differ in capacity, so that a mutation can
\* overload one; one delivery, which a move can leave out altogether
GAInputs ==
    {<<<<Delivery("D1", 1, 2, 2), Delivery("D2", 3, 1, 1)>>,
       <<Vehicle(2, 1000), Vehicle(1, 1000)>>>>,
     <<<<Delivery("D1", 1, 1, 1)>>,
       <<Vehicle(3, 1000), Vehicle(3, 1000)>>>>}

\* OptimizationConfig: the rates in percent, 0 for no early stopping
GAConfigs ==
    [population_size : {2}, generations : 0..MaxGenerations,
     crossover_rate : {0, 80}, mutation_rate : {20},
     max_iterations_without_improvement : {0, 1}]

InitGA ==
    /\ optimizer = "genetic_algorithm"
    /\ \E inp \in GAInputs : deliveries = inp[1] /\ vehicles = inp[2]
    /\ config \in GAConfigs
    /\ CallIdle /\ GAIdle /\ BestIdle /\ SAIdle /\ SolIdle /\ BenchIdle /\ FactoryIdle

NextGA ==
    \/ GAStart \/ GASelect \/ GACrossoverSkip \/ GACrossoverShort
    \/ GACrossoverRaises \/ GAMutateSkip \/ GAMutate \/ GAEvaluate \/ GAReplace
    \/ GAReturn

SpecGA == InitGA /\ [][NextGA]_vars

----------------------------------------------------------------------------
(* Two calls of optimize in a row on the same arguments, the module random *)
(* seeded alike before each                                                *)

\* The caller keeps the outcome of the first call, seeds random as before
\* it and calls optimize again; the locals of the first call are gone
GASecondRun ==
    /\ optimizer = "genetic_algorithm" /\ pc \in {"returned", "raised"}
    /\ draws.mode = "record"
    /\ first_run' = <<[pc |-> pc, result |-> result, raised |-> raised,
                       best_fitness_history |-> best_fitness_history]>>
    /\ draws' = [mode |-> "replay", log |-> draws.log]
    /\ pc' = "called" /\ result' = <<>> /\ raised' = <<>>
    /\ generation' = 0
    /\ UNCHANGED <<inputVars, distance_matrix, individuals, population, offspring,
                   cursor, generations_without_improvement, at_selection, bestVars, saVars,
                   solVars, benchVars>>

\* The runs: a population of one, mutated for up to MaxGenerations
\* generations; a population of two for one generation, crossed without
\* mutation when the individuals hold two deliveries
SeededRuns ==
    {<<inp, c>> \in GAInputs \X
        [population_size : {1, 2}, generations : 1..MaxGenerations,
         crossover_rate : {0, 80}, mutation_rate : {0, 20},
         max_iterations_without_improvement : {0, 1}] :
        \/ c.population_size = 1 /\ c.crossover_rate = 0 /\ c.mutation_rate = 20
        \/ /\ c.population_size = 2 /\ c.generations = 1 /\ c.crossover_rate = 80
           /\ c.max_iterations_without_improvement = 0
           /\ c.mutation_rate = 0 <=> Len(inp[1]) = 2}

InitSeeded ==
    /\ optimizer = "genetic_algorithm"
    /\ \E run \in SeededRuns :
         deliveries = run[1][1] /\ vehicles = run[1][2] /\ config = run[2]
    /\ individuals = <<>> /\ population = <<>> /\ offspring = <<>>
    /\ cursor = 0 /\ generation = 0 /\ generations_without_improvement = 0
    /\ draws = [mode |-> "record", log |-> <<>>] /\ first_run = <<>>
    /\ at_selection = <<>>
    /\ CallIdle /\ BestIdle /\ SAIdle /\ SolIdle /\ BenchIdle /\ FactoryIdle

SpecSeeded == InitSeeded /\ [][NextGA \/ GASecondRun]_vars

----------------------------------------------------------------------------
(* optimize of each optimizer called on well-formed and malformed input   *)

\* Delivery lists: a valid one, and one for each way validate_deliveries
\* rejects a list
EntryDeliveries ==
    {<<Delivery("D1", 1, 1, 1), Delivery("D2", 2, 2, 2)>>,
     <<>>,
     <<Delivery("", 1, 1, 1)>>,
     <<Delivery("D1", 1, 1, 1), Delivery("D1", 2, 2, 1)>>,
     <<Delivery("D1", 1, 1, 0)>>,
     <<Delivery("D1", 1, 1, 1), Delivery("D2", 2, 2, -1)>>,
     <<Delivery("D1", 1, 0, 1)>>,
     <<Delivery("D1", 1, 3, 1)>>}

\* Vehicle lists: a valid one, and one for each way validate_vehicles
\* rejects a list
EntryVehicles ==
    {<<Vehicle(3, 1000)>>,
     <<>>,
     <<Vehicle(0, 1000)>>,
     <<Vehicle(3, 1000), Vehicle(3, 0)>>,
     <<Vehicle(3, -5)>>,
     <<[Vehicle(3, 1000) EXCEPT !.fuel_cost_per_km = -1]>>,
     <<[Vehicle(3, 1000) EXCEPT !.driver_cost_per_hour = -1]>>}

InitEntry ==
    /\ optimizer \in {"genetic_algorithm", "greedy", "simulated_annealing"}
    /\ deliveries \in EntryDeliveries
    /\ vehicles \in EntryVehicles
    /\ config = [population_size |-> 2, generations |-> 1, crossover_rate |-> 80,
                 mutation_rate |-> 20, max_iterations_without_improvement |-> 0]
    /\ sa_params = SADefaults
    /\ current_solution = <<>> /\ current_fitness = 0 /\ best_solution = <<>>
    /\ temperature = <<0, 1>> /\ iteration = 0 /\ seed_fitness = 0 /\ accepted = {}
    /\ CallIdle /\ GAIdle /\ BestIdle /\ SolIdle /\ BenchIdle /\ FactoryIdle

NextEntry == GAStart \/ GreedyOptimize \/ SAStart

SpecEntry == InitEntry /\ [][NextEntry]_vars

----------------------------------------------------------------------------
(* OptimizerFactory.create, and optimize of the optimizer it returns      *)

\* dict.get(key, default): value is what the dict holds under the key, or
\* the mark none of an absent key
DictGet(value, none, default) == IF value = none THEN default ELSE value

\* The else branch of create, made to fall back on a default optimizer
UnsupportedType_Fallback(type, fitness_weights) ==
    [raised |-> <<>>,
     optimizer |-> <<[class |-> "GreedyOptimizer",
                      fitness_weights |-> fitness_weights]>>]

\* The else branch of create: raise InvalidConfigurationError
UnsupportedType(type, fitness_weights) ==
    [raised |-> <<"InvalidConfigurationError", type>>, optimizer |-> <<>>]

\* OptimizerFactory.create(optimizer_type, config), fitness_weights not given
create(type, cfg) ==
    LET fitness_weights == FitnessWeights
    IN IF type = "genetic_algorithm"
          THEN LET strategy_name == DictGet(cfg.initialization_strategy, "", "random")
               IN [raised |-> <<>>,
                   optimizer |->
                     <<[class |-> "GeneticAlgorithmOptimizer",
                        fitness_weights |-> fitness_weights,
                        initialization_strategy |->
                          IF strategy_name = "nearest_neighbor"
                             THEN "NearestNeighborInitializationStrategy"
                          ELSE IF strategy_name = "priority_first"
                             THEN "PriorityFirstInitializationStrategy"
                          ELSE "RandomInitializationStrategy"]>>]
       ELSE IF type = "greedy"
          THEN [raised |-> <<>>,
                optimizer |-> <<[class |-> "GreedyOptimizer",
                                 fitness_weights |-> fitness_weights]>>]
       ELSE IF type = "simulated_annealing"
          THEN LET sa_config == DictGet(cfg.sa_config, <<>>,
                                   <<[initial_temperature |-> <<>>,
                                      cooling_rate |-> <<>>,
                                      min_temperature |-> <<>>]>>)[1]
               IN [raised |-> <<>>,
                   optimizer |->
                     <<[class |-> "SimulatedAnnealingOptimizer",
                        fitness_weights |-> fitness_weights,
                        initial_temperature |->
                          DictGet(sa_config.initial_temperature, <<>>, <<1000, 1>>),
                        cooling_rate |-> DictGet(sa_config.cooling_rate, <<>>,
                                             <<19, 20>>),
                        min_temperature |->
                          DictGet(sa_config.min_temperature, <<>>, <<1, 10>>)]>>]
       ELSE UnsupportedType(type, fitness_weights)

\* The optimize that a call on an instance of the class runs
OptimizeOf(class) ==
    IF class = "GeneticAlgorithmOptimizer" THEN "genetic_algorithm"
    ELSE IF class = "GreedyOptimizer" THEN "greedy"
    ELSE "simulated_annealing"

\* optimizer = OptimizerFactory.create(optimizer_type, factory_config); the
\* caller goes on to optimizer.optimize(deliveries, vehicles, config, depot)
FactoryCreate ==
    /\ pc = "create"
    /\ LET made == create(optimizer_type, factory_config)
       IN IF made.raised # <<>>
             THEN /\ pc' = "raised"
                  /\ raised' = made.raised
                  /\ UNCHANGED <<optimizer, created, sa_params>>
             ELSE /\ pc' = "called"
                  /\ created' = made.optimizer
                  /\ optimizer' = OptimizeOf(made.optimizer[1].class)
                  /\ sa_params' =
                       IF made.optimizer[1].class = "SimulatedAnnealingOptimizer"
                          THEN [initial_temperature |-> made.optimizer[1].initial_temperature,
                                cooling_rate |-> made.optimizer[1].cooling_rate,
                                min_temperature |-> made.optimizer[1].min_temperature,
                                weights |-> made.optimizer[1].fitness_weights]
                          ELSE sa_params
                  /\ raised' = <<>>
    /\ UNCHANGED <<deliveries, vehicles, config, optimizer_type, factory_config,
                   result, distance_matrix, gaVars, bestVars, current_solution,
                   current_fitness, best_solution, temperature, iteration,
                   seed_fitness, accepted, solVars, benchVars>>

\* Type names: the three supported ones and others
TypeNames ==
    {"genetic_algorithm", "greedy", "simulated_annealing", "genetic", "ga",
     "Greedy", "tabu_search", ""}

\* The dicts given as config: none, each strategy name, an unknown strategy
\* name, a whole sa_config and a partial one
FactoryConfigs ==
    {NoFactoryConfig}
    \cup {[NoFactoryConfig EXCEPT !.initialization_strategy = n] :
            n \in {"random", "nearest_neighbor", "priority_first", "hybrid"}}
    \cup {[NoFactoryConfig EXCEPT !.sa_config = <<c>>] :
            c \in {[initial_temperature |-> <<10, 1>>, cooling_rate |-> <<1, 2>>,
                    min_temperature |-> <<1, 1>>],
                   [initial_temperature |-> <<>>, cooling_rate |-> <<1, 2>>,
                    min_temperature |-> <<>>]}}

\* OptimizationConfig(...) with every field in its range
InRangeConfig ==
    [population_size |-> 2, generations |-> 1, crossover_rate |-> 80,
     mutation_rate |-> 20, elite_size |-> 1,
     max_iterations_without_improvement |-> 0]

\* OptimizationConfig(...) instances: the one in range and, for each field,
\* one with that field out of its range (the rates in percent)
OptimizationConfigs ==
    {InRangeConfig,
     [InRangeConfig EXCEPT !.population_size = 1, !.elite_size = 0],
     [InRangeConfig EXCEPT !.generations = 0],
     [InRangeConfig EXCEPT !.crossover_rate = 150],
     [InRangeConfig EXCEPT !.crossover_rate = -10],
     [InRangeConfig EXCEPT !.mutation_rate = 150],
     [InRangeConfig EXCEPT !.mutation_rate = -10],
     [InRangeConfig EXCEPT !.elite_size = 2]}

InitFactory ==
    /\ optimizer = ""
    /\ optimizer_type \in TypeNames
    /\ factory_config \in FactoryConfigs
    /\ created = <<>>
    /\ deliveries = <<Delivery("D1", 1, 2, 2), Delivery("D2", 3, 1, 1)>>
    /\ vehicles \in {<<Vehicle(2, 1000), Vehicle(1, 1000)>>, <<Vehicle(3, 250)>>}
    /\ config \in OptimizationConfigs
    /\ pc = "create" /\ result = <<>> /\ raised = <<>> /\ distance_matrix = <<>>
    /\ GAIdle /\ BestIdle /\ SAIdle /\ SolIdle
    /\ algorithms = [given |-> FALSE, names |-> <<>>]
    /\ algo_idx = 0 /\ algorithm_results = <<>>
    /\ benchmark_result = <<>> /\ run_log = <<>>

NextFactory == FactoryCreate \/ GAStart \/ GreedyOptimize \/ SAStart

SpecFactory == InitFactory /\ [][NextFactory]_vars

----------------------------------------------------------------------------
(* cli.py: main parses --algorithm and hands it to OptimizerFactory.create *)

\* choices= and default= of the --algorithm argument
AlgorithmChoices == {"genetic", "greedy", "simulated_annealing"}
AlgorithmDefault == "genetic"

\* args = parser.parse_args(): --algorithm is one of the choices, or it is
\* not given ("") and args.algorithm is the default
ParseArgs ==
    /\ pc = "main"
    /\ \E given \in AlgorithmChoices \cup {""} :
         optimizer_type' = IF given = "" THEN AlgorithmDefault ELSE given
    /\ pc' = "create"
    /\ UNCHANGED <<optimizer, deliveries, vehicles, config, factory_config, created,
                   result, raised, distance_matrix, gaVars, bestVars, saVars,
                   solVars, benchVars>>

\* main before parse_args; create is called without a config dict
InitCLI ==
    /\ optimizer = ""
    /\ optimizer_type = ""
    /\ factory_config = NoFactoryConfig
    /\ created = <<>>
    /\ deliveries = <<Delivery("D1", 1, 2, 2), Delivery("D2", 3, 1, 1)>>
    /\ vehicles \in {<<Vehicle(2, 1000), Vehicle(1, 1000)>>, <<Vehicle(3, 250)>>}
    /\ config \in OptimizationConfigs
    /\ pc = "main" /\ result = <<>> /\ raised = <<>> /\ distance_matrix = <<>>
    /\ GAIdle /\ BestIdle /\ SAIdle /\ SolIdle /\ BenchIdle

\* optimizer.optimize(...) of the optimizers main gets from the factory
NextCLI == ParseArgs \/ FactoryCreate \/ GreedyOptimize \/ SAStart

SpecCLI == InitCLI /\ [][NextCLI]_vars

----------------------------------------------------------------------------
(* _route_crossover on two parents that hold every delivery once          *)

\* Every way of writing the ids as routes: an order of the ids, cut into
\* one, two or three non-empty routes
Cuts(p) ==
    {<<p>>}
    \cup {<<SubSeq(p, 1, k), SubSeq(p, k + 1, Len(p))>> : k \in 1..(Len(p) - 1)}
    \cup {<<SubSeq(p, 1, c[1]), SubSeq(p, c[1] + 1, c[2]), SubSeq(p, c[2] + 1, Len(p))>> :
            c \in {c \in (1..(Len(p) - 2)) \X (2..(Len(p) - 1)) : c[1] < c[2]}}

CompleteIndividuals(dels) ==
    UNION {Cuts(p) : p \in Shuffles([i \in DOMAIN dels |-> dels[i].id])}

\* Fleets for the three deliveries of weight 2, 1, 2: one that takes all,
\* two that force a split, two with a vehicle too small for D1 and D3,
\* one where no vehicle takes them
CrossoverVehicles ==
    {<<Vehicle(5, 1000)>>,
     <<Vehicle(2, 1000), Vehicle(3, 1000)>>,
     <<Vehicle(3, 1000), Vehicle(1, 1000)>>,
     <<Vehicle(1, 1000), Vehicle(5, 1000)>>,
     <<Vehicle(1, 1000), Vehicle(1, 1000), Vehicle(1, 1000)>>}

\* child1, child2 = self._route_crossover(ind1, ind2), the parents being the
\* two individuals of the heap; result holds the pair returned
RouteCrossover ==
    /\ optimizer = "route_crossover" /\ pc = "called"
    /\ LET ind1  == individuals[1].routes
           ind2  == individuals[2].routes
           flat1 == Flatten(ind1)
       IN IF Len(flat1) < 2 \/ Len(Flatten(ind2)) < 2
             THEN result' = <<ind1, ind2>>
             ELSE \E q \in {q \in (0..(Len(flat1) - 1)) \X (1..Len(flat1)) :
                               q[1] < q[2]} :
                    result' = _route_crossover(ind1, ind2, q[1], q[2],
                                               deliveries, vehicles)
    /\ pc' = "returned"
    /\ UNCHANGED <<inputVars, raised, distance_matrix, gaVars, bestVars, saVars,
                   solVars, benchVars>>

InitCrossover ==
    /\ optimizer = "route_crossover"
    /\ \/ /\ deliveries = <<Delivery("D1", 1, 2, 2), Delivery("D2", 3, 1, 1),
                             Delivery("D3", 2, 2, 2)>>
          /\ vehicles \in CrossoverVehicles
       \/ /\ deliveries = <<Delivery("D1", 1, 1, 2)>>
          /\ vehicles \in {<<Vehicle(1, 1000)>>, <<Vehicle(5, 1000)>>}
    /\ config = NoConfig
    /\ \E parents \in CompleteIndividuals(deliveries) \X CompleteIndividuals(deliveries) :
         individuals = <<PlainList(parents[1]), PlainList(parents[2])>>
    /\ population = <<>> /\ offspring = <<>>
    /\ cursor = 0 /\ generation = 0 /\ generations_without_improvement = 0
    /\ draws = NoDraws /\ first_run = <<>> /\ at_selection = <<>>
    /\ CallIdle /\ BestIdle /\ SAIdle /\ SolIdle /\ BenchIdle /\ FactoryIdle

SpecCrossover == InitCrossover /\ [][RouteCrossover]_vars

----------------------------------------------------------------------------
(* generate_individual of each initialization strategy                    *)

StrategyNames ==
    {"RandomInitializationStrategy", "NearestNeighborInitializationStrategy",
     "PriorityFirstInitializationStrategy"}

\* One to three valid deliveries of either priority, weight 1 or 2, one or
\* three degrees away; and D1..D5 with D2 and D4 critical, all of weight 1
StrategyDeliveries ==
    UNION {{[i \in 1..n |-> Delivery(<<"D1", "D2", "D3">>[i], lat[i], prio[i], w[i])] :
              lat \in [1..n -> {1, 3}], prio \in [1..n -> {1, 2}],
              w \in [1..n -> {1, 2}]} : n \in 1..3}
    \cup {<<Delivery("D1", 1, 2, 1), Delivery("D2", 3, 1, 1), Delivery("D3", 1, 2, 1),
            Delivery("D4", 1, 1, 1), Delivery("D5", 3, 2, 1)>>}

\* Fleets: one that takes everything, small ones, one of short range
StrategyVehicles ==
    {<<Vehicle(50, 5000), Vehicle(50, 5000)>>,
     <<Vehicle(3, 1000)>>,
     <<Vehicle(1, 1000), Vehicle(2, 1000)>>,
     <<Vehicle(2, 250), Vehicle(2, 1000)>>}

\* routes = strategy.generate_individual(deliveries, vehicles, depot_location)
GenerateIndividual ==
    /\ optimizer = "initialization_strategy" /\ pc = "called"
    /\ \E shuffled \in Shuffles([i \in DOMAIN deliveries |-> deliveries[i].id]) :
         result' = <<InitialIndividual(created[1].initialization_strategy, shuffled,
                                       deliveries, vehicles, depot_location)>>
    /\ pc' = "returned"
    /\ UNCHANGED <<inputVars, raised, distance_matrix, gaVars, bestVars, saVars,
                   solVars, benchVars>>

InitStrategy ==
    /\ optimizer = "initialization_strategy"
    /\ optimizer_type = "" /\ factory_config = NoFactoryConfig
    /\ \E name \in StrategyNames :
         created = <<[class |-> "GeneticAlgorithmOptimizer",
                      fitness_weights |-> FitnessWeights,
                      initialization_strategy |-> name]>>
    /\ deliveries \in StrategyDeliveries
    /\ vehicles \in StrategyVehicles
    /\ config = NoConfig
    /\ CallIdle /\ GAIdle /\ BestIdle /\ SAIdle /\ SolIdle
    /\ algorithms = [given |-> FALSE, names |-> <<>>]
    /\ algo_idx = 0 /\ algorithm_results = <<>>
    /\ benchmark_result = <<>> /\ run_log = <<>>

SpecStrategy == InitStrategy /\ [][GenerateIndividual]_vars

----------------------------------------------------------------------------
(* _route_mutate and _generate_neighbor on the same routes, under the     *)
(* same random choices                                                    *)

\* Routes lists over one to three deliveries: every order cut into routes,
\* the empty list, and lists that hold an empty route
MutationRoutes ==
    UNION {Cuts(p) : p \in Shuffles(<<"D1", "D2", "D3">>)
                          \cup Shuffles(<<"D1", "D2">>) \cup {<<"D1">>}}
    \cup {<<>>, <<<<"D1">>, <<>>>>, <<<<>>, <<"D1", "D2">>>>}

\* self._route_mutate(individual): the individual changes in place; the
\* values the random source returned are kept for the second call
RouteMutate ==
    /\ optimizer = "mutation" /\ pc = "called"
    /\ \E c \in GAChoices(individuals[1].routes) \cup SAChoices(individuals[1].routes) :
         /\ individuals' = [individuals EXCEPT
                               ![1].routes = _route_mutate(@, c)]
         /\ draws' = [mode |-> "replay", log |-> <<c>>]
    /\ pc' = "mutated"
    /\ UNCHANGED <<inputVars, result, raised, distance_matrix, population,
                   offspring, cursor, generation, generations_without_improvement,
                   first_run, at_selection, bestVars, saVars, solVars, benchVars>>

\* self._generate_neighbor(current_solution, deliveries, vehicles) with the
\* random source returning the same values again
GenerateNeighbor ==
    /\ optimizer = "mutation" /\ pc = "mutated"
    /\ LET neighbor == _generate_neighbor(current_solution, Head(draws.log))
       IN IF neighbor = <<>>
             THEN pc' = "raised" /\ raised' = <<"IndexError">> /\ result' = result
             ELSE pc' = "returned" /\ result' = neighbor /\ raised' = raised
    /\ UNCHANGED <<inputVars, distance_matrix, gaVars, bestVars, saVars, solVars,
                   benchVars>>

InitMutation ==
    /\ optimizer = "mutation"
    /\ deliveries = <<>> /\ vehicles = <<>> /\ config = NoConfig
    /\ \E routes \in MutationRoutes :
         /\ individuals = <<PlainList(routes)>>
         /\ current_solution = routes
    /\ population = <<>> /\ offspring = <<>> /\ cursor = 0 /\ generation = 0
    /\ generations_without_improvement = 0 /\ draws = NoDraws /\ first_run = <<>> /\ at_selection = <<>>
    /\ sa_params = NoSAParams /\ current_fitness = 0 /\ best_solution = <<>>
    /\ temperature = <<0, 1>> /\ iteration = 0 /\ seed_fitness = 0 /\ accepted = {}
    /\ CallIdle /\ BestIdle /\ SolIdle /\ BenchIdle /\ FactoryIdle

SpecMutation == InitMutation /\ [][RouteMutate \/ GenerateNeighbor]_vars

----------------------------------------------------------------------------
(* improve_solution on the solutions over four deliveries                 *)

LSDeliveries ==
    <<Delivery("D1", 1, 1, 1), Delivery("D2", 3, 2, 2),
      Delivery("D3", 2, 2, 1), Delivery("D4", 4, 1, 2)>>

\* Every order of the four ids, as one route or cut in two
LSSolutions ==
    {IF k = Len(p) THEN <<p>> ELSE <<SubSeq(p, 1, k), SubSeq(p, k + 1, Len(p))>> :
        <<p, k>> \in Shuffles([i \in DOMAIN LSDeliveries |-> LSDeliveries[i].id])
                       \X (1..Len(LSDeliveries))}

InitLS ==
    /\ optimizer = "local_search"
    /\ deliveries = LSDeliveries
    /\ vehicles \in {<<Vehicle(4, 1000), Vehicle(4, 1000)>>,
                     <<Vehicle(6, 1000), Vehicle(2, 1000)>>}
    /\ config = NoConfig
    /\ solution \in LSSolutions
    /\ max_iterations \in 0..MaxIterations
    /\ distance_matrix = _build_distance_matrix(deliveries, depot_location)
    /\ pc = "called" /\ result = <<>> /\ raised = <<>> /\ verdict = <<>>
    /\ GAIdle /\ BestIdle /\ SAIdle /\ BenchIdle /\ FactoryIdle

NextLS == LSStart \/ LSPass \/ LSReturn

SpecLS == InitLS /\ [][NextLS]_vars

----------------------------------------------------------------------------
(* run_benchmark on lists of at most MaxAlgorithms names                  *)

\* The lists of at most MaxAlgorithms names over the three algorithms and a
\* name that self.algorithms does not hold
BenchRequests ==
    UNION {[1..n -> Range(AlgorithmNames) \cup {"tabu_search"}] : n \in 0..MaxAlgorithms}

InitBench ==
    /\ optimizer = "benchmark"
    /\ \/ /\ deliveries = <<Delivery("D1", 1, 1, 2), Delivery("D2", 3, 2, 2)>>
          /\ vehicles = <<Vehicle(3, 1000)>>
       \/ /\ deliveries = <<>>
          /\ vehicles = <<Vehicle(3, 1000)>>
    /\ config = NoConfig
    /\ algorithms \in {[given |-> FALSE, names |-> <<>>]}
                        \cup {[given |-> TRUE, names |-> r] : r \in BenchRequests}
    /\ algo_idx = 0 /\ algorithm_results = <<>> /\ benchmark_result = <<>>
    /\ run_log = <<>>
    /\ CallIdle /\ GAIdle /\ BestIdle /\ SAIdle /\ SolIdle /\ FactoryIdle

NextBench ==
    \/ BenchStart \/ BenchSkipUnknown \/ BenchRunCompletes \/ BenchRunRaises
    \/ BenchAnalyze

SpecBench == InitBench /\ [][NextBench]_vars

----------------------------------------------------------------------------
(* The fitness engine called on a solution: sa_params.weights are the     *)
(* FitnessWeights the CompositeFitness was built with, solution the routes *)
(* of the RouteSolution, whose total_distance comes from the id-keyed      *)
(* matrix as in _routes_list_to_solution                                   *)

\* Routes of at most two stops over the ids D1, D2 and an unknown id
FitnessRoutes ==
    UNION {[1..n -> {"D1", "D2", "DX"}] : n \in 0..2}

\* The default weights; a capacity, an autonomy and a vehicle weight of 0,
\* which FitnessWeights.__post_init__ allows; other positive weights
FitnessWeightsChoices ==
    {FitnessWeights,
     [FitnessWeights EXCEPT !.capacity_penalty = 0, !.autonomy_penalty = 0,
                            !.vehicle_penalty = 0],
     [FitnessWeights EXCEPT !.capacity_penalty = 1, !.autonomy_penalty = 2,
                            !.vehicle_penalty = 7]}

FitnessBreakdown ==
    /\ optimizer = "fitness" /\ pc = "called"
    /\ result' = <<[breakdown |->
                      get_components_breakdown(
                          [routes |-> solution,
                           total_distance |->
                               _calculate_total_distance(solution, distance_matrix)],
                          deliveries, vehicles, depot_location, distance_matrix,
                          sa_params.weights),
                    fitness_score |->
                      _routes_to_solution(solution, deliveries, vehicles,
                                          depot_location, distance_matrix,
                                          sa_params.weights).fitness_score]>>
    /\ pc' = "returned"
    /\ UNCHANGED <<inputVars, raised, distance_matrix, gaVars, bestVars, saVars,
                   solVars, benchVars>>

InitFitness ==
    /\ optimizer = "fitness"
    /\ deliveries = <<Delivery("D1", 1, 1, 2), Delivery("D2", 3, 2, 1)>>
    /\ vehicles \in {<<Vehicle(c, r)>> : c \in {2, 3}, r \in {250, 1000}}
                      \cup {<<Vehicle(3, 1000), Vehicle(c, 250)>> : c \in {1, 2}}
    /\ config = NoConfig
    /\ sa_params \in {[NoSAParams EXCEPT !.weights = w] : w \in FitnessWeightsChoices}
    /\ solution \in UNION {[1..n -> FitnessRoutes] : n \in 0..3}
    /\ distance_matrix = _build_distance_matrix(deliveries, depot_location)
    /\ pc = "called" /\ result = <<>> /\ raised = <<>>
    /\ verdict = <<>> /\ max_iterations = 0
    /\ current_solution = <<>> /\ current_fitness = 0 /\ best_solution = <<>>
    /\ temperature = <<0, 1>> /\ iteration = 0 /\ seed_fitness = 0 /\ accepted = {}
    /\ GAIdle /\ BestIdle /\ BenchIdle /\ FactoryIdle

SpecFitness == InitFitness /\ [][FitnessBreakdown]_vars

----------------------------------------------------------------------------
(* validate_solution as a call of its own *)

\* Routes of at most three stops over the ids D1, D2 and an unknown id
CandidateRoutes ==
    LET ids == {"D1", "D2", "DX"}
    IN UNION {[1..n -> ids] : n \in 0..3}

ValidateSolution ==
    /\ optimizer = "validate_solution" /\ pc = "called"
    /\ verdict' = <<validate_solution(solution, deliveries, vehicles)>>
    /\ pc' = "returned"
    /\ UNCHANGED <<inputVars, result, raised, distance_matrix, gaVars, bestVars,
                   saVars, solution, max_iterations, benchVars>>

InitValidate ==
    /\ optimizer = "validate_solution"
    /\ deliveries \in {<<Delivery("D1", 1, 1, w1), Delivery("D2", 3, 2, w2)>> :
                          w1 \in {1, 2}, w2 \in {1, 2}}
    /\ vehicles \in {<<Vehicle(c, 1000)>> : c \in {2, 4}}
                      \cup {<<Vehicle(c, 1000), Vehicle(2, 1000)>> : c \in {2, 4}}
    /\ solution \in UNION {[1..n -> CandidateRoutes] : n \in 0..2}
    /\ config = NoConfig
    /\ verdict = <<>> /\ max_iterations = 0
    /\ CallIdle /\ GAIdle /\ BestIdle /\ SAIdle /\ BenchIdle /\ FactoryIdle

SpecValidate == InitValidate /\ [][ValidateSolution]_vars

----------------------------------------------------------------------------
(* Claims *)

InputIds == {deliveries[i].id : i \in DOMAIN deliveries}

\* Every input delivery id appears exactly once in the routes, and no other id
ExactCover(routes) ==
    /\ \A id \in InputIds : Count(Flatten(routes), id) = 1
    /\ Range(Flatten(routes)) \subseteq InputIds

\* Every route has a vehicle at its index and weighs no more than its capacity
CapacityRespected(routes) ==
    \A r \in DOMAIN routes :
        /\ r <= Len(vehicles)
        /\ route_weight(routes[r], deliveries) <= vehicles[r].max_capacity

\* C3: validate_solution returns true if and only if the routes hold every
\* input delivery id exactly once (no duplicate, no omission, no unknown id)
\* and every route's weight is within the capacity of the vehicle at its index.
C3_ValidateIffExactCoverAndCapacity ==
    verdict # <<>> =>
        (verdict[1] <=> (ExactCover(solution) /\ CapacityRespected(solution)))

\* C5: the routes Greedy returns hold every input delivery id exactly once,
\* none of them is empty, and every route beyond the fleet (the leftover
\* fallback) is a singleton appended after the vehicles' routes.
C5_GreedyFullCoverage ==
    (optimizer = "greedy" /\ pc = "returned") =>
        LET routes == result[1].solution.routes
        IN /\ ExactCover(routes)
           /\ \A r \in DOMAIN routes : routes[r] # <<>>
           /\ \A r \in DOMAIN routes : r > Len(vehicles) => Len(routes[r]) = 1

\* C5 witness: a Greedy run in which some delivery fitted no vehicle and the
\* fallback appended singleton routes beyond the fleet
C5_Witness ==
    /\ optimizer = "greedy" /\ pc = "returned"
    /\ Len(result[1].solution.routes) > Len(vehicles)
    /\ Len(deliveries) = 3


\* C6: the solution Simulated Annealing returns has the minimum fitness over
\* the Greedy seed and every neighbor accepted during the run, measured with
\* the optimizer's own weights, hence a fitness <= the seed's
C6_SAReturnsBestEver ==
    (optimizer = "simulated_annealing" /\ pc = "returned") =>
        /\ result[1].solution.fitness_score = SetMin({seed_fitness} \cup accepted)
        /\ result[1].solution.fitness_score <= seed_fitness
        /\ result[1].solution.fitness_score
             = SAFitness(result[1].solution.routes, deliveries, vehicles,
                         distance_matrix, sa_params.weights)

\* A run that accepted a neighbor better than the seed, went on to a worse
\* current solution, and returned the better one
C6_Witness ==
    /\ optimizer = "simulated_annealing" /\ pc = "returned"
    /\ result[1].solution.fitness_score < seed_fitness
    /\ current_fitness > result[1].solution.fitness_score
    /\ result[1].solution.routes # current_solution

\* C7: the loop of Simulated Annealing runs at most config.generations
\* iterations (1000 when generations <= 0), goes on only while the cooled
\* temperature is not below min_temperature, stops before the iteration
\* limit only when it is, and under initial_temperature 10, cooling_rate 0.5,
\* min_temperature 1 runs at most 4 iterations whatever generations is
C7_SALoopBounded ==
    optimizer = "simulated_annealing" =>
        /\ iteration <= SAIterations(config)
        /\ config.generations > 0 => iteration <= config.generations
        /\ config.generations <= 0 => SAIterations(config) = 1000
        /\ pc = "sa_loop" =>
             /\ iteration < SAIterations(config)
             /\ iteration > 0 =>
                  ~RatLess(temperature, sa_params.min_temperature)
        /\ (pc \in {"sa_done", "returned"} /\ iteration < SAIterations(config)) =>
             /\ RatLess(temperature, sa_params.min_temperature)
             /\ iteration > 1 =>
                  ~RatLess(temperature, RatTimes(sa_params.min_temperature,
                                                 sa_params.cooling_rate))
        /\ (/\ sa_params.initial_temperature = <<10, 1>>
            /\ sa_params.cooling_rate = <<1, 2>>
            /\ sa_params.min_temperature = <<1, 1>>) => iteration <= 4

\* A run asked for the fallback 1000 iterations that the temperature stopped
\* after the fourth
C7_Witness ==
    /\ optimizer = "simulated_annealing" /\ pc = "returned"
    /\ config.generations <= 0
    /\ sa_params = ScenarioD
    /\ iteration = 4
    /\ result[1].generations_evolved = 4


\* C1: the solution the genetic algorithm returns has the least fitness
\* ever recorded in best_fitness_history
C1_GAReturnsBestAcrossGenerations ==
    (optimizer = "genetic_algorithm" /\ pc = "returned") =>
        result[1].solution.fitness_score = SetMin(Range(result[1].best_fitness_history))

\* C2: best_fitness_history never increases from one generation to the next
C2_BestFitnessHistoryNonIncreasing ==
    optimizer = "genetic_algorithm" =>
        \A g \in 1..(Len(best_fitness_history) - 1) :
            best_fitness_history[g + 1] <= best_fitness_history[g]


\* C4: optimize called with malformed input fails with DataValidationError
\* as the error the caller receives, before any distance matrix, population
\* or route is built
C4_MalformedInputRaisesDataValidationError ==
    (pc # "called" /\ ValidationError(deliveries, vehicles) # "") =>
        /\ pc = "raised"
        /\ raised[1] = "DataValidationError"
        /\ distance_matrix = <<>> /\ individuals = <<>> /\ population = <<>>
        /\ current_solution = <<>> /\ result = <<>>


\* C8: called with max_iterations >= 1 and a fitness calculator,
\* improve_solution returns a solution whose fitness is <= the fitness of
\* the solution it was given
C8_LocalSearchMonotonic ==
    (optimizer = "local_search" /\ max_iterations >= 1
        /\ pc \notin {"called", "ls_loop", "ls_done"}) =>
        /\ pc = "returned"
        /\ result[1].solution.fitness_score
             <= LSFitness(solution, deliveries, vehicles, distance_matrix)


\* C9: in a BenchmarkResult with at least one completed run, best_algorithm
\* names a run of algorithm_results whose fitness_score is the least of that
\* result, and summary.best_fitness is that least fitness
C9_BestAlgorithmIsArgminFitness ==
    (optimizer = "benchmark" /\ pc = "returned"
        /\ benchmark_result[1].algorithm_results # <<>>) =>
        LET runs == benchmark_result[1].algorithm_results
        IN /\ \E i \in DOMAIN runs :
                /\ runs[i].algorithm_name = benchmark_result[1].best_algorithm
                /\ \A j \in DOMAIN runs : runs[i].fitness_score <= runs[j].fitness_score
                /\ benchmark_result[1].summary.best_fitness = runs[i].fitness_score
           /\ \A j \in DOMAIN runs :
                benchmark_result[1].summary.best_fitness <= runs[j].fitness_score

\* A benchmark whose best run is neither the first nor the fastest one
C9_Witness ==
    /\ optimizer = "benchmark" /\ pc = "returned"
    /\ Len(benchmark_result[1].algorithm_results) >= 2
    /\ benchmark_result[1].best_algorithm
         # benchmark_result[1].algorithm_results[1].algorithm_name
    /\ benchmark_result[1].best_algorithm # benchmark_result[1].fastest_algorithm

\* C10: a run that raises adds no entry to algorithm_results and does not
\* end run_benchmark: every requested name is gone through in the requested
\* order, the runs that completed are reported in that order, and a
\* BenchmarkResult is returned, even when no run completed
C10_FailedRunIsSkipped ==
    optimizer = "benchmark" =>
        LET done == SelectSeq(run_log, LAMBDA e : e[2] = "completed")
        IN /\ pc # "raised" /\ raised = <<>>
           /\ Len(run_log) <= Len(BenchAlgorithms)
           /\ \A i \in DOMAIN run_log : run_log[i][1] = BenchAlgorithms[i]
           /\ Len(algorithm_results) = Len(done)
           /\ \A i \in DOMAIN done : algorithm_results[i].algorithm_name = done[i][1]
           /\ pc = "returned" =>
                /\ Len(run_log) = Len(BenchAlgorithms)
                /\ \A i \in DOMAIN run_log :
                     run_log[i][2] = "not found"
                        <=> run_log[i][1] \notin Range(AlgorithmNames)
                /\ benchmark_result # <<>>
                /\ benchmark_result[1].algorithm_results = algorithm_results

\* A benchmark returned after a run that raised and a later one that
\* completed
C10_Witness ==
    /\ optimizer = "benchmark" /\ pc = "returned"
    /\ \E i, j \in DOMAIN run_log :
         i < j /\ run_log[i][2] = "error" /\ run_log[j][2] = "completed"
    /\ Len(benchmark_result[1].algorithm_results) < Len(run_log)


\* The number of consecutive rounds, the last of them round k, whose best
\* fitness h[k] did not go below the least value recorded before them
FailedRounds(h, k) ==
    LET lowered == {j \in 1..k : \A i \in 1..(j - 1) : h[j] < h[i]}
    IN k - (CHOOSE j \in lowered : \A i \in lowered : i <= j)

\* The early stopping test after round k, read off the history
StallReached(h, k) ==
    /\ config.max_iterations_without_improvement # 0
    /\ FailedRounds(h, k) >= config.max_iterations_without_improvement

C13_ZeroCapacityPenaltyIffFeasible_AnyWeight ==
    (optimizer = "fitness" /\ pc = "returned") =>
        (result[1].breakdown.capacity_penalty = 0 <=> CapacityRespected(solution))

\* C13, amended: for every positive penalty weight, CapacityPenalty.calculate
\* returns exactly 0 if and only if every route has a vehicle at its index
\* and weighs no more than that vehicle's max_capacity; under the weight 0
\* it returns 0 for every solution.
C13_ZeroCapacityPenaltyIffFeasible ==
    (optimizer = "fitness" /\ pc = "returned") =>
        /\ sa_params.weights.capacity_penalty > 0 =>
             (result[1].breakdown.capacity_penalty = 0
                <=> CapacityRespected(solution))
        /\ sa_params.weights.capacity_penalty = 0 =>
             result[1].breakdown.capacity_penalty = 0

\* A penalty of 0 under a positive weight for routes that fill a vehicle
\* to its capacity exactly
C13_Witness ==
    /\ optimizer = "fitness" /\ pc = "returned"
    /\ sa_params.weights.capacity_penalty > 0
    /\ result[1].breakdown.capacity_penalty = 0
    /\ \E r \in DOMAIN solution :
         route_weight(solution[r], deliveries) = vehicles[r].max_capacity


\* C14: AutonomyPenalty.calculate measures each route's round trip (depot to
\* first stop, consecutive stops, last stop to depot) with the distance
\* lookup handed to the fitness engine, the one total_distance and
\* violations['autonomy'] come from, and returns 0 if and only if every
\* route has a vehicle at its index and a round trip <= its max_range.
C14_ZeroAutonomyPenaltyIffWithinRange ==
    (optimizer = "fitness" /\ pc = "returned"
        /\ sa_params.weights.autonomy_penalty > 0) =>
        (result[1].breakdown.autonomy_penalty = 0
           <=> \A r \in DOMAIN solution :
                 /\ r <= Len(vehicles)
                 /\ _calculate_route_distance(solution[r], distance_matrix)
                      <= vehicles[r].max_range)


\* C15: the vehicle-count term of CompositeFitness is vehicle_penalty times
\* the number of non-empty routes; an empty route adds nothing to the fitness.
C15_VehicleTermCountsNonEmptyRoutes ==
    (optimizer = "fitness" /\ pc = "returned") =>
        result[1].breakdown.vehicle_penalty
          = sa_params.weights.vehicle_penalty * FitnessScale
              * Cardinality({r \in DOMAIN solution : solution[r] # <<>>})


\* C18 as stated: Greedy on D1..D5 of weights 10, 5, 15, 8, 12 and two
\* vehicles of max_capacity 50 yields two routes, both non-empty, whose ids
\* together are exactly D1..D5 with no duplicate.
C18_ScenarioA_TwoRoutes ==
    (optimizer = "greedy" /\ pc = "returned") =>
        LET routes == result[1].solution.routes
        IN /\ Len(routes) = 2
           /\ \A r \in DOMAIN routes : routes[r] # <<>>
           /\ ExactCover(routes)

\* C18, amended: Greedy on D1..D5 of weights 10, 5, 15, 8, 12 and two
\* vehicles of max_capacity 50 yields routes, none of them empty, whose ids
\* together are exactly D1..D5 with no duplicate; the weights add up to 50,
\* so a first vehicle whose range reaches every delivery takes all five and
\* the result is a single route.
C18_ScenarioA_Coverage ==
    (optimizer = "greedy" /\ pc = "returned") =>
        LET routes == result[1].solution.routes
            reach  == SumSeq([i \in DOMAIN deliveries |->
                        2 * calculate_distance(depot_location,
                                               deliveries[i].location)])
        IN /\ \A r \in DOMAIN routes : routes[r] # <<>>
           /\ ExactCover(routes)
           /\ vehicles[1].max_range >= reach => Len(routes) = 1

\* Scenario A with a first vehicle of ample range: one route of five ids
C18_Witness ==
    /\ optimizer = "greedy" /\ pc = "returned"
    /\ Len(deliveries) = 5 /\ vehicles[1].max_range = 5000
    /\ Len(result[1].solution.routes) = 1
    /\ Len(result[1].solution.routes[1]) = 5


\* C16: OptimizerFactory.create returns a GeneticAlgorithmOptimizer, a
\* GreedyOptimizer or a SimulatedAnnealingOptimizer for the type names
\* genetic_algorithm, greedy and simulated_annealing respectively, and for
\* every other type name it fails with InvalidConfigurationError and
\* returns no optimizer.
C16_FactoryCreatesByTypeName ==
    (optimizer_type \in TypeNames /\ pc # "create") =>
        IF optimizer_type \in Range(AlgorithmNames)
           THEN /\ created # <<>>
                /\ created[1].class =
                     (CASE optimizer_type = "genetic_algorithm" ->
                             "GeneticAlgorithmOptimizer"
                        [] optimizer_type = "greedy" -> "GreedyOptimizer"
                        [] optimizer_type = "simulated_annealing" ->
                             "SimulatedAnnealingOptimizer")
           ELSE /\ created = <<>> /\ optimizer = ""
                /\ pc = "raised" /\ raised # <<>>
                /\ raised[1] = "InvalidConfigurationError"
                /\ result = <<>>

\* create("tabu_search", ...) has raised InvalidConfigurationError
C16_Witness ==
    /\ optimizer_type = "tabu_search" /\ pc = "raised"
    /\ raised = <<"InvalidConfigurationError", "tabu_search">>
    /\ created = <<>>

\* C17: a config with a field out of its range (population_size < 2,
\* generations < 1, crossover_rate or mutation_rate outside [0,1],
\* elite_size >= population_size) is rejected with
\* InvalidConfigurationError when the optimizer is made, so no optimize
\* call ever starts a search with such a config.
C17_NoSearchWithOutOfRangeConfig ==
    (created # <<>> /\ pc \notin {"create", "called", "raised"}) =>
        /\ config.population_size >= 2
        /\ config.generations >= 1
        /\ config.crossover_rate \in 0..100
        /\ config.mutation_rate \in 0..100
        /\ config.elite_size < config.population_size


\* C19: every initialization strategy (Random, NearestNeighbor,
\* PriorityFirst) returns a complete partition: each input delivery id
\* appears in exactly one returned route, also when the result violates
\* capacity or range.
C19_StrategiesReturnCompletePartition ==
    (optimizer = "initialization_strategy" /\ pc = "returned") =>
        ExactCover(result[1])

\* C20: in every route PriorityFirstInitializationStrategy produces, all
\* critical (priority 1) ids come before any normal id; with 2 critical
\* and 3 normal deliveries and 2 vehicles large enough for all of them,
\* the first route starts with the critical ids.
C20_PriorityFirstCriticalBeforeNormal ==
    (/\ optimizer = "initialization_strategy" /\ pc = "returned"
     /\ created[1].initialization_strategy = "PriorityFirstInitializationStrategy") =>
        LET routes == result[1]
            priority(id) == FirstDelivery(deliveries, id)[1].priority
        IN /\ \A r \in DOMAIN routes : \A i, j \in DOMAIN routes[r] :
                 (priority(routes[r][i]) # 1 /\ priority(routes[r][j]) = 1) => j < i
           /\ (Len(deliveries) = 5 /\ vehicles[1].max_capacity >= 5) =>
                 SubSeq(routes[1], 1, 2) = <<"D2", "D4">>

\* D1..D5 with D2 and D4 critical, two vehicles of capacity 50: the first
\* route is the two critical ids, then the three normal ones
C20_Witness ==
    /\ optimizer = "initialization_strategy" /\ pc = "returned"
    /\ created[1].initialization_strategy = "PriorityFirstInitializationStrategy"
    /\ Len(deliveries) = 5 /\ vehicles[1].max_capacity = 50
    /\ result[1] = <<<<"D2", "D4", "D1", "D3", "D5">>, <<>>>>


\* C21: the Local Search Refiner never lengthens a route: _two_opt returns a
\* reordering of the same ids whose round trip is <= its input's, and every
\* route of the solution improve_solution returns has a round trip <= the
\* one of the route at the same index of the solution it was given.
C21_LocalSearchNeverLengthensRoute ==
    (optimizer = "local_search") =>
        /\ \A r \in DOMAIN solution :
              LET improved_route == _two_opt(solution[r], distance_matrix)
              IN /\ Len(improved_route) = Len(solution[r])
                 /\ Range(improved_route) = Range(solution[r])
                 /\ _calculate_route_distance(improved_route, distance_matrix)
                      <= _calculate_route_distance(solution[r], distance_matrix)
        /\ (pc \notin {"called", "ls_loop", "ls_done"}) =>
              /\ pc = "returned"
              /\ Len(result[1].solution.routes) = Len(solution)
              /\ \A r \in DOMAIN solution :
                    _calculate_route_distance(result[1].solution.routes[r],
                                              distance_matrix)
                      <= _calculate_route_distance(solution[r], distance_matrix)


\* The ids too heavy for every vehicle of the fleet
FitsNoVehicle ==
    {deliveries[i].id : i \in {i \in DOMAIN deliveries :
        \A v \in DOMAIN vehicles : deliveries[i].weight > vehicles[v].max_capacity}}

\* A child of the crossover holds every delivery once, in non-empty routes,
\* no more of them than there are vehicles
WellFormedIndividual(child) ==
    /\ ExactCover(child)
    /\ \A r \in DOMAIN child : child[r] # <<>>
    /\ Len(child) <= Len(vehicles)

\* C22 as stated: crossover never drops or duplicates a delivery; each child
\* of two complete parents holds every id exactly once, has no empty route
\* and at most len(vehicles) routes, and an id that fits no vehicle is in
\* the last route of the child.
C22_CrossoverChildren_ForcedLast ==
    (optimizer = "route_crossover" /\ pc = "returned") =>
        \A c \in DOMAIN result :
            /\ WellFormedIndividual(result[c])
            /\ FitsNoVehicle \subseteq Range(result[c][Len(result[c])])

\* C22, amended: crossover never drops or duplicates a delivery; each child
\* of two complete parents holds every id exactly once, has no empty route
\* and at most len(vehicles) routes; an id that fits no vehicle stays in
\* the child, in a route that it overloads, which need not be the last.
C22_CrossoverChildren ==
    (optimizer = "route_crossover" /\ pc = "returned") =>
        \A c \in DOMAIN result :
            /\ WellFormedIndividual(result[c])
            /\ \A id \in FitsNoVehicle : \E r \in DOMAIN result[c] :
                  /\ id \in Range(result[c][r])
                  /\ route_weight(result[c][r], deliveries) > vehicles[r].max_capacity

\* Three vehicles of capacity 1 and the weights 2, 1, 2: a child of three
\* ids whose first route is an id that fits no vehicle
C22_Witness ==
    /\ optimizer = "route_crossover" /\ pc = "returned"
    /\ Len(deliveries) = 3 /\ FitsNoVehicle = {"D1", "D3"}
    /\ result[1][1] = <<"D1">> /\ Len(result[1]) = 2
    /\ result[1] # individuals[1].routes


\* C23: whenever crossover or mutation changes an individual's routes, its
\* cached fitness is invalidated and it is re-evaluated before replacement:
\* a crossed pair goes on to the replacement step, and at every replacement
\* step each individual of population + offspring, the children of a
\* crossover included, carries a valid fitness equal to the composite
\* fitness of its current routes.
C23_FitnessValidAtReplacement ==
    (optimizer = "genetic_algorithm") =>
        /\ \A i \in DOMAIN offspring : individuals[offspring[i]].has_fitness
        /\ pc = "raised" => raised # WrapOptimizationError("AttributeError")
        /\ pc = "ga_replace" =>
              \A ref \in Range(population \o offspring) :
                  /\ individuals[ref].valid
                  /\ individuals[ref].fitness =
                       _evaluate_individual(individuals[ref].routes, deliveries,
                                            vehicles, distance_matrix)

\* C24: every route at index i that PriorityFirstInitializationStrategy
\* returns weighs at most vehicles[i].max_capacity, for any fleet, also with
\* vehicles of different capacities and a vehicle that receives no critical
\* delivery.
C24_PriorityFirstRespectsCapacity ==
    (/\ optimizer = "initialization_strategy" /\ pc = "returned"
     /\ created[1].initialization_strategy = "PriorityFirstInitializationStrategy")
        => CapacityRespected(result[1])

\* C26: swap, move and reverse of the GA keep the ids of the individual: a
\* move puts the chosen delivery into some route and never loses it, so after
\* any sequence of mutations every delivery id is in exactly one route of
\* every individual.
C26_MutationKeepsIds ==
    (optimizer = "genetic_algorithm") =>
        \A i \in DOMAIN individuals : ExactCover(individuals[i].routes)

\* C29: _generate_neighbor returns for every non-empty current solution and
\* every random choice, never raising, and the routes it returns (the current
\* solution once accepted) hold the same ids as the solution it started from.
C29_NeighborTotalAndIdPreserving ==
    (optimizer = "simulated_annealing") =>
        /\ pc = "raised" => raised # WrapOptimizationError("IndexError")
        /\ pc \in {"sa_loop", "sa_done", "returned"} =>
              /\ ExactCover(current_solution)
              /\ \A c \in SAChoices(current_solution) :
                    LET nb == _generate_neighbor(current_solution, c)
                    IN nb # <<>> /\ ExactCover(nb[1])

\* C25: for any routes list and any identical sequence of random choices,
\* _generate_neighbor returns the routes that _route_mutate leaves in the
\* individual.
C25_NeighborEqualsMutation ==
    (optimizer = "mutation" /\ pc \in {"returned", "raised"}) =>
        pc = "returned" /\ result[1] = individuals[1].routes

\* C27: within a generation crossover and mutation act on the offspring
\* only: at replacement every individual of the current population has the
\* routes and the fitness it had at selection, whichever individuals the
\* tournaments picked.
C27_PopulationUntouchedByVariation ==
    (optimizer = "genetic_algorithm" /\ pc = "ga_replace") =>
        at_selection = Snapshot(population, individuals)

\* C28: when Greedy assigns every delivery inside the loop over the vehicles
\* (the leftover fallback appends nothing), the routes it returns pass
\* validate_solution: each route is at the index of the vehicle it was built
\* for and weighs no more than that vehicle's max_capacity.
C28_GreedyWithoutLeftoverIsValid ==
    (/\ optimizer = "greedy" /\ pc = "returned"
     /\ GreedyFilled(deliveries, vehicles, distance_matrix).remaining = <<>>)
        => validate_solution(result[1].solution.routes, deliveries, vehicles)

\* C30: every value the CLI accepts for --algorithm, its default included,
\* is a type name OptimizerFactory.create accepts: a CLI run never fails
\* with InvalidConfigurationError because of the algorithm name.
C30_CLIAlgorithmsAccepted ==
    (optimizer_type \in AlgorithmChoices /\ pc = "raised") =>
        raised[1] # "InvalidConfigurationError"

====
